---- MODULE Spec2Model ----
(***************************************************************************)
(* Verification model of the ARCS kinematics / action-safety core.         *)
(*                                                                         *)
(*   src/src/arcs/safety.py          SafetyFilter                          *)
(*   src/src/arcs/geo/kinematics.py  KinematicsSolver                      *)
(*                                                                         *)
(* Numbers.  The code computes in numpy float32.  A number is modelled as  *)
(* an exact rational n/d, or one of the three IEEE specials NaN, +Inf and  *)
(* -Inf, with the IEEE rules for arithmetic and comparison on the          *)
(* specials.  Rounding of finite float32 results is not modelled: finite   *)
(* arithmetic is exact.                                                    *)
(***************************************************************************)
EXTENDS Integers, Sequences, FiniteSets, TLC

VARIABLES
    filt,      \* the SafetyFilter object: the attributes set by __init__
    cp,        \* module global cp: TRUE iff "import cvxpy" succeeded
    pc,        \* the caller's position: "idle" or "returned"
    call,      \* arguments of the call in progress, and the solver's outcome
    res,       \* what filter_action returned / logged
    arrays,    \* the caller's action and current_state objects after the call
    kin,       \* the KinematicsSolver object: the attributes set by _build_chain
    kpc,       \* the kinematics caller's position: "idle" or "returned"
    kcall,     \* arguments of the kinematics call in progress
    kres,      \* what the kinematics call returned or raised
    torch,     \* module global torch: TRUE iff "import torch" succeeded
    ktrace,    \* the joint vectors the call in progress evaluated, in order
    service,   \* module global _kinematics_service: None or the service object
    created,   \* the KinematicsSolver constructor calls made so far, in order
    sres,      \* what the last KinematicsService.get_solver call returned or raised
    threads,   \* worker threads inside KinematicsService.get_solver: position and locals
    geo,       \* the transforms and the point of the SE3 computation in progress, and its results
    buffer,    \* the RolloutBuffer object: the attributes add reads and writes
    bres,      \* the add calls made so far and what the last one raised
    renv,      \* the RealRobotEnv object: _is_running and _mock_pos
    rres,      \* the last RealRobotEnv call: operation, action, exception, and the steps made
    tenv,      \* the environment a demonstration is recorded in
    demo,      \* the last record_demonstration call and its outcome
    mgr,       \* the websocket ConnectionManager
    wres,      \* the last call on the connection manager and what it returned
    train,     \* the TrainingService with one run, its stop flags and training threads
    tres,      \* the last call on the training service and what it returned
    api,       \* the globals of the safety router
    ares       \* the last request to the safety router and its response

safetyVars == <<filt, cp, pc, call, res, arrays>>
kinVars == <<kin, kpc, kcall, kres, torch, ktrace>>
svcVars == <<service, created, sres>>
vars == <<filt, cp, pc, call, res, arrays, kin, kpc, kcall, kres, torch, ktrace,
          service, created, sres,
          threads,
          geo,
          buffer,
          bres,
          renv,
          rres,
          tenv,
          demo,
          mgr,
          wres,
          train,
          tres,
          api,
          ares>>

\* The variables of the further components start out as follows.
ExtIdle ==
    /\ threads = <<>>
    /\ geo = <<>>
    /\ buffer = <<>>
    /\ bres = <<>>
    /\ renv = <<>>
    /\ rres = <<>>
    /\ tenv = <<>>
    /\ demo = <<>>
    /\ mgr = <<>>
    /\ wres = <<>>
    /\ train = <<>>
    /\ tres = <<>>
    /\ api = <<>>
    /\ ares = <<>>

\* The same, except for the variables named in own.
ExtIdleBut(own) ==
    /\ IF "threads" \in own THEN TRUE ELSE threads = <<>>
    /\ IF "geo" \in own THEN TRUE ELSE geo = <<>>
    /\ IF "buffer" \in own THEN TRUE ELSE buffer = <<>>
    /\ IF "bres" \in own THEN TRUE ELSE bres = <<>>
    /\ IF "renv" \in own THEN TRUE ELSE renv = <<>>
    /\ IF "rres" \in own THEN TRUE ELSE rres = <<>>
    /\ IF "tenv" \in own THEN TRUE ELSE tenv = <<>>
    /\ IF "demo" \in own THEN TRUE ELSE demo = <<>>
    /\ IF "mgr" \in own THEN TRUE ELSE mgr = <<>>
    /\ IF "wres" \in own THEN TRUE ELSE wres = <<>>
    /\ IF "train" \in own THEN TRUE ELSE train = <<>>
    /\ IF "tres" \in own THEN TRUE ELSE tres = <<>>
    /\ IF "api" \in own THEN TRUE ELSE api = <<>>
    /\ IF "ares" \in own THEN TRUE ELSE ares = <<>>

\* An action of one component leaves the further components' variables,
\* except those named in own, unchanged.
ExtFrame(own) ==
    /\ IF "threads" \in own THEN TRUE ELSE UNCHANGED threads
    /\ IF "geo" \in own THEN TRUE ELSE UNCHANGED geo
    /\ IF "buffer" \in own THEN TRUE ELSE UNCHANGED buffer
    /\ IF "bres" \in own THEN TRUE ELSE UNCHANGED bres
    /\ IF "renv" \in own THEN TRUE ELSE UNCHANGED renv
    /\ IF "rres" \in own THEN TRUE ELSE UNCHANGED rres
    /\ IF "tenv" \in own THEN TRUE ELSE UNCHANGED tenv
    /\ IF "demo" \in own THEN TRUE ELSE UNCHANGED demo
    /\ IF "mgr" \in own THEN TRUE ELSE UNCHANGED mgr
    /\ IF "wres" \in own THEN TRUE ELSE UNCHANGED wres
    /\ IF "train" \in own THEN TRUE ELSE UNCHANGED train
    /\ IF "tres" \in own THEN TRUE ELSE UNCHANGED tres
    /\ IF "api" \in own THEN TRUE ELSE UNCHANGED api
    /\ IF "ares" \in own THEN TRUE ELSE UNCHANGED ares

----------------------------------------------------------------------------
(* Bounds of the model.                                                    *)

MaxAct == 2        \* commanded actions range over -MaxAct..MaxAct and specials
MaxPos == 2        \* joint positions range over -MaxPos..MaxPos and specials
MaxQpIters == 1    \* solver iteration counts range over 1..MaxQpIters
MaxQ == 3          \* joint values given to the kinematics range over -MaxQ..MaxQ
MaxBatch == 2      \* a batch of joint vectors has 1..MaxBatch rows
MaxBatchQ == 1     \* joint values in a batch range over -MaxBatchQ..MaxBatchQ
MaxIkQ == 1        \* initial guesses of inverse kinematics range over -MaxIkQ..MaxIkQ
MaxIkT == 1        \* target coordinates range over -MaxIkT..MaxIkT and 22/7
MaxIters == 2      \* max_iters of inverse kinematics ranges over 0..MaxIters
MaxJoints == 2     \* a parsed description lists at most MaxJoints joints
MaxQuat == 2       \* quaternion components given to SE3 range over -MaxQuat..MaxQuat
MaxT == 1          \* translation and point coordinates range over 0..MaxT
MaxBuf == 2        \* buffer_size of a rollout buffer ranges over 0..MaxBuf
MaxAdds == 4       \* at most MaxAdds calls of RolloutBuffer.add
MaxEnvSteps == 3   \* at most MaxEnvSteps calls of RealRobotEnv.step
MaxDemoSteps == 3  \* steps an environment is scripted for, and largest max_steps
MaxRecordings == 2 \* calls of record_demonstration on one environment
MaxTotalSteps == 2 \* largest total_steps of a training run
MaxStepsPerUpdate == 2 \* largest steps_per_update of a run's PPO configuration
MaxTrainThreads == 2 \* training threads started for one run
MaxRequests == 3   \* filter requests to a configured safety router between two reset-stats
MaxSent == 5       \* requests to the safety router in one behaviour
MaxThreads == 2    \* worker threads that call the kinematics service
MaxCreated == 3    \* the kinematics service constructs at most MaxCreated solvers

----------------------------------------------------------------------------
(* Numbers: exact rationals and the IEEE specials.                         *)

None == <<>>
Some(x) == <<x>>

Abs(x) == IF x < 0 THEN -x ELSE x

RECURSIVE Gcd(_, _)
Gcd(a, b) == IF b = 0 THEN a ELSE Gcd(b, a % b)

\* The rational n/d (d > 0) in lowest terms.
Fin(n, d) ==
    LET g == Gcd(Abs(n), d)
    IN  [k |-> "fin", n |-> n \div g, d |-> d \div g]

NaN  == [k |-> "nan", n |-> 0, d |-> 1]
PInf == [k |-> "inf", n |-> 1, d |-> 1]
NInf == [k |-> "inf", n |-> -1, d |-> 1]
Zero == Fin(0, 1)

Sgn(x) == IF x > 0 THEN 1 ELSE IF x < 0 THEN -1 ELSE 0
InfOf(s) == IF s > 0 THEN PInf ELSE NInf

IsNan(a) == a.k = "nan"
IsFinite(a) == a.k = "fin"

FNeg(a) == [a EXCEPT !.n = -a.n]

FAdd(a, b) ==
    IF IsNan(a) \/ IsNan(b) THEN NaN
    ELSE IF a.k = "inf" /\ b.k = "inf" THEN (IF a.n = b.n THEN a ELSE NaN)
    ELSE IF a.k = "inf" THEN a
    ELSE IF b.k = "inf" THEN b
    ELSE Fin(a.n * b.d + b.n * a.d, a.d * b.d)

FSub(a, b) == FAdd(a, FNeg(b))

FMul(a, b) ==
    IF IsNan(a) \/ IsNan(b) THEN NaN
    ELSE IF a.k = "inf" \/ b.k = "inf"
         THEN (IF a.n = 0 \/ b.n = 0 THEN NaN ELSE InfOf(Sgn(a.n) * Sgn(b.n)))
    ELSE Fin(a.n * b.n, a.d * b.d)

FDiv(a, b) ==
    IF IsNan(a) \/ IsNan(b) THEN NaN
    ELSE IF a.k = "inf" /\ b.k = "inf" THEN NaN
    ELSE IF a.k = "inf" THEN InfOf(a.n * (IF b.n < 0 THEN -1 ELSE 1))
    ELSE IF b.k = "inf" THEN Zero
    ELSE IF b.n = 0 THEN (IF a.n = 0 THEN NaN ELSE InfOf(a.n))
    ELSE Fin(a.n * b.d * Sgn(b.n), a.d * Abs(b.n))

\* a <= b; FALSE when either is NaN.
FLe(a, b) ==
    /\ ~IsNan(a)
    /\ ~IsNan(b)
    /\ IF a.k = "inf" THEN (a.n < 0 \/ b = PInf)
       ELSE IF b.k = "inf" THEN b.n > 0
       ELSE a.n * b.d <= b.n * a.d

FLt(a, b) == FLe(a, b) /\ a # b
FGt(a, b) == FLt(b, a)
FGe(a, b) == FLe(b, a)

FAbs(a) == IF a.n < 0 THEN FNeg(a) ELSE a

\* np.maximum / np.minimum: a NaN operand gives NaN.
FMaximum(a, b) ==
    IF IsNan(a) \/ IsNan(b) THEN NaN ELSE IF FLe(a, b) THEN b ELSE a

FMinimum(a, b) ==
    IF IsNan(a) \/ IsNan(b) THEN NaN ELSE IF FLe(a, b) THEN a ELSE b

----------------------------------------------------------------------------
(* Arrays: sequences of numbers, with numpy's elementwise operations.      *)

Idx(a) == 1..Len(a)

\* The array of the given whole numbers.
V(ints) == [i \in 1..Len(ints) |-> Fin(ints[i], 1)]

VNeg(a) == [i \in Idx(a) |-> FNeg(a[i])]
VAdd(a, b) == [i \in Idx(a) |-> FAdd(a[i], b[i])]
VSub(a, b) == [i \in Idx(a) |-> FSub(a[i], b[i])]
VAbs(a) == [i \in Idx(a) |-> FAbs(a[i])]
VScale(a, s) == [i \in Idx(a) |-> FMul(a[i], s)]
VDivS(a, s) == [i \in Idx(a) |-> FDiv(a[i], s)]

\* np.clip(a, lo, hi) == np.minimum(np.maximum(a, lo), hi)
NpClip(a, lo, hi) == [i \in Idx(a) |-> FMinimum(FMaximum(a[i], lo[i]), hi[i])]

\* np.zeros_like(a)
ZerosLike(a) == [i \in Idx(a) |-> Zero]

\* Variant: only the first element is tested.
FirstIsNan(a) == Len(a) > 0 /\ IsNan(a[1])

\* np.any(np.isnan(a))
AnyNan(a) == \E i \in Idx(a) : IsNan(a[i])

AllFinite(a) == \A i \in Idx(a) : IsFinite(a[i])

RECURSIVE SumSeq(_)
SumSeq(a) == IF a = <<>> THEN Zero ELSE FAdd(Head(a), SumSeq(Tail(a)))

\* row @ u
Dot(row, u) == SumSeq([i \in Idx(u) |-> FMul(row[i], u[i])])

\* np.where(mask)[0].tolist(): the 0-based indices where mask holds, ascending.
RECURSIVE WhereFrom(_, _)
WhereFrom(mask, i) ==
    IF i > Len(mask) THEN <<>>
    ELSE (IF mask[i] THEN <<i - 1>> ELSE <<>>) \o WhereFrom(mask, i + 1)

Where(mask) == WhereFrom(mask, 1)

----------------------------------------------------------------------------
(* SafetyFilter (src/src/arcs/safety.py).                                  *)

\* |commanded - safe| > 1e-6 marks a clipped joint.
ClipTolDen == 1000000
ClipTol == Fin(1, ClipTolDen)

\* SafetyFilter.__init__: the attributes of a new filter.
SafetyFilterInit(joint_limits, workspace_bounds, dt, use_qp, solver_timeout) ==
    [joint_limits     |-> joint_limits,
     workspace_bounds |-> workspace_bounds,
     dt               |-> dt,
     use_qp           |-> use_qp,
     solver_timeout   |-> solver_timeout]

\* current_state.get("joint_pos", np.zeros_like(action))
JointPos(action, current_state) ==
    IF current_state.joint_pos = None THEN ZerosLike(action)
    ELSE current_state.joint_pos[1]

\* _clip_action, first half: clip to the velocity limits.
VelClip(self, action) ==
    NpClip(action, VNeg(self.joint_limits.vel_max), self.joint_limits.vel_max)

\* _clip_action: clip to the torque limits.
TorqueClip(self, safe) ==
    NpClip(safe, VNeg(self.joint_limits.torque_max), self.joint_limits.torque_max)

\* _clip_action, second half: clip the implied next position to the position
\* limits and back-solve the action from it.
PositionBackSolve(self, safe, q) ==
    LET q_next    == VAdd(q, VScale(safe, self.dt))
        q_clipped == NpClip(q_next, self.joint_limits.pos_min,
                            self.joint_limits.pos_max)
    IN  VDivS(VSub(q_clipped, q), self.dt)

\* What _clip_action returns for the array `safe`: (safe, 0).
ClipReturn(safe) ==
    [safe |-> safe, iterations |-> 0, path |-> "clip", exc |-> "none"]

\* Variants of _clip_action with one step changed.
ClipActionNoTorque(self, action, q) ==
    ClipReturn(PositionBackSolve(self, VelClip(self, action), q))

ClipActionNoPosition(self, action, q) ==
    ClipReturn(TorqueClip(self, VelClip(self, action)))

ClipActionWorkspace(self, action, q) ==
    IF self.workspace_bounds # None THEN ClipReturn(ZerosLike(action))
    ELSE ClipReturn(PositionBackSolve(self, TorqueClip(self, VelClip(self, action)), q))

\* SafetyFilter._clip_action: velocity clip, torque clip, position clip of the
\* implied next position, back-solve of the action.
ClipAction(self, action, q) ==
    ClipReturn(PositionBackSolve(self, TorqueClip(self, VelClip(self, action)), q))

\* The workspace constraint is added only when bounds, ee_pos and jacobian
\* are all given.
HasWorkspaceConstraint(self, current_state) ==
    /\ self.workspace_bounds # None
    /\ current_state.ee_pos # None
    /\ current_state.jacobian # None

\* ee_pos + jacobian[:3, :] @ u * dt
EeNext(self, current_state, u) ==
    LET ee_pos   == current_state.ee_pos[1]
        jacobian == current_state.jacobian[1]
    IN  [r \in 1..3 |-> FAdd(ee_pos[r], FMul(Dot(jacobian[r], u), self.dt))]

\* The workspace constraint of the quadratic program, evaluated at u.
QpWorkspaceConstraint(self, current_state, u) ==
    HasWorkspaceConstraint(self, current_state) =>
        LET ee_next == EeNext(self, current_state, u)
            box     == self.workspace_bounds[1]
        IN  \A r \in 1..3 :
                FGe(ee_next[r], box.lower[r]) /\ FLe(ee_next[r], box.upper[r])

\* Variant of the constraints without the position constraint.
QpConstraintsNoPosition(self, q, current_state, u) ==
    /\ \A i \in Idx(u) :
          /\ FLe(u[i], self.joint_limits.vel_max[i])
          /\ FGe(u[i], FNeg(self.joint_limits.vel_max[i]))
          /\ FLe(u[i], self.joint_limits.torque_max[i])
          /\ FGe(u[i], FNeg(self.joint_limits.torque_max[i]))
    /\ QpWorkspaceConstraint(self, current_state, u)

\* The constraints of the quadratic program, evaluated at u.
QpConstraints(self, q, current_state, u) ==
    LET vel_max    == self.joint_limits.vel_max
        torque_max == self.joint_limits.torque_max
        pos_min    == self.joint_limits.pos_min
        pos_max    == self.joint_limits.pos_max
        q_next     == VAdd(q, VScale(u, self.dt))
    IN  /\ \A i \in Idx(u) :
              /\ FLe(u[i], vel_max[i]) /\ FGe(u[i], FNeg(vel_max[i]))
              /\ FLe(u[i], torque_max[i]) /\ FGe(u[i], FNeg(torque_max[i]))
              /\ FGe(q_next[i], pos_min[i]) /\ FLe(q_next[i], pos_max[i])
        /\ QpWorkspaceConstraint(self, current_state, u)

\* cp.sum_squares(u - action)
QpObjective(action, u) ==
    SumSeq([i \in Idx(u) |-> FMul(FSub(u[i], action[i]), FSub(u[i], action[i]))])

\* Candidate solutions: the half-integer grid over the commanded range.
QpGrid(n) == [1..n -> {Fin(i, 2) : i \in (-2 * MaxAct)..(2 * MaxAct)}]

QpFeasible(self, action, q, current_state) ==
    {u \in QpGrid(Len(action)) : QpConstraints(self, q, current_state, u)}

QpArgMin(self, action, q, current_state) ==
    LET F   == QpFeasible(self, action, q, current_state)
        obj == [u \in F |-> QpObjective(action, u)]
    IN  {u \in F : \A v \in F : FLe(obj[u], obj[v])}

NoSolve == [raises |-> FALSE, status |-> "not_run", value |-> None, num_iters |-> 0]

\* What problem.solve(solver=OSQP, max_iter=1000, time_limit=solver_timeout)
\* can leave behind: an exception (solver error, invalid data); a status
\* without a value (infeasible, or a limit reached); or a value with status
\* optimal or optimal_inaccurate, which satisfies the constraints and
\* minimises the objective over the candidates.
SolverOutcomes(self, action, q, current_state) ==
    {[raises |-> TRUE, status |-> "not_set", value |-> None, num_iters |-> 0]}
    \cup {[raises |-> FALSE, status |-> s, value |-> None, num_iters |-> 0] :
             s \in {"infeasible", "user_limit"}}
    \cup IF AllFinite(action) /\ AllFinite(q)
         THEN {[raises |-> FALSE, status |-> s, value |-> Some(u), num_iters |-> k] :
                  s \in {"optimal", "optimal_inaccurate"},
                  u \in QpArgMin(self, action, q, current_state),
                  k \in 1..MaxQpIters}
         ELSE {}

\* Variant of _solve_qp whose try has no except clause.
SolveQpNoCatch(self, action, q, current_state, out) ==
    IF out.raises
    THEN [safe |-> <<>>, iterations |-> 0, path |-> "raise", exc |-> "SolverError"]
    ELSE IF out.value = None \/ out.status \notin {"optimal", "optimal_inaccurate"}
         THEN ClipAction(self, action, q)
    ELSE [safe |-> out.value[1], iterations |-> out.num_iters,
          path |-> "qp", exc |-> "none"]

\* SafetyFilter._solve_qp, given the outcome `out` of problem.solve.
SolveQp(self, action, q, current_state, out) ==
    IF out.raises THEN ClipAction(self, action, q)
    ELSE IF out.value = None \/ out.status \notin {"optimal", "optimal_inaccurate"}
         THEN ClipAction(self, action, q)
    ELSE [safe |-> out.value[1], iterations |-> out.num_iters,
          path |-> "qp", exc |-> "none"]

\* SafetyFilter._log_event: the fields of the "safety.filtered" event.
LogEvent(action, safe_action, clipped_joints, violations, iterations) ==
    [clipped_joints              |-> clipped_joints,
     original_action             |-> action,
     safe_action                 |-> safe_action,
     constraint_violations_count |-> violations,
     qp_iterations               |-> iterations]

\* The NaN branches of filter_action: zero action, empty report.
ZeroResult(action) ==
    LET safe_action == ZerosLike(action)
    IN  [ret   |-> safe_action,
         event |-> LogEvent(action, safe_action, <<>>, 0, 0),
         path  |-> "zero",
         exc   |-> "none"]

\* np.where(np.abs(action - safe_action) > 1e-6)[0].tolist()
ClippedJoints(action, safe_action) ==
    Where([i \in Idx(action) |->
              FGt(FAbs(FSub(action[i], safe_action[i])), ClipTol)])

\* SafetyFilter.filter_action: the value returned and the event logged.
FilterCall(self, action, current_state, out) ==
    IF AnyNan(action) THEN ZeroResult(action)
    ELSE LET q == JointPos(action, current_state)
         IN  IF AnyNan(q) THEN ZeroResult(action)
             ELSE LET r == IF self.use_qp /\ cp
                           THEN SolveQp(self, action, q, current_state, out)
                           ELSE ClipAction(self, action, q)
                      clipped_joints == ClippedJoints(action, r.safe)
                  IN  IF r.exc # "none"
                      THEN \* an exception leaves filter_action: nothing is
                           \* returned and nothing is logged
                           [ret |-> <<>>, event |-> LogEvent(<<>>, <<>>, <<>>, 0, 0),
                            path |-> r.path, exc |-> r.exc]
                      ELSE
                      [ret   |-> r.safe,
                       event |-> LogEvent(action, r.safe, clipped_joints,
                                          Len(clipped_joints), r.iterations),
                       path  |-> r.path,
                       exc   |-> r.exc]

\* Variant of filter_action that clips in place, into the caller's array.
FilterActionInPlace(self, action, current_state, out) ==
    [result        |-> FilterCall(self, action, current_state, out),
     self          |-> self,
     action        |-> FilterCall(self, action, current_state, out).ret,
     current_state |-> current_state]

\* filter_action as seen from outside: its result, and the objects it was
\* handed (the filter, the caller's action array and state dict) after the
\* call.  The code assigns no attribute of self and writes into no array.
FilterAction(self, action, current_state, out) ==
    [result        |-> FilterCall(self, action, current_state, out),
     self          |-> self,
     action        |-> action,
     current_state |-> current_state]

\* Whether filter_action reaches problem.solve for these arguments.
SolverRuns(self, action, current_state) ==
    /\ ~AnyNan(action)
    /\ ~AnyNan(JointPos(action, current_state))
    /\ self.use_qp
    /\ cp

----------------------------------------------------------------------------
(* Configurations and inputs.                                              *)

JointLimitsSet ==
    {[pos_min |-> V(<<-1, -1>>), pos_max |-> V(<<1, 1>>),
      vel_max |-> V(<<1, 2>>), torque_max |-> V(<<2, 1>>)]}

WorkspaceBox == [lower |-> V(<<-1, -1, -1>>), upper |-> V(<<1, 1, 1>>)]

\* The configurations explored: solve disabled; solve enabled without and
\* with the optimizer; without and with workspace bounds; dt = 2 and dt = 1/2.
Setups ==
    {[use_qp |-> FALSE, cp |-> TRUE,  ws |-> None,               dt |-> Fin(1, 2)],
     [use_qp |-> TRUE,  cp |-> FALSE, ws |-> Some(WorkspaceBox), dt |-> Fin(2, 1)],
     [use_qp |-> TRUE,  cp |-> TRUE,  ws |-> None,               dt |-> Fin(2, 1)],
     [use_qp |-> TRUE,  cp |-> TRUE,  ws |-> Some(WorkspaceBox), dt |-> Fin(1, 2)]}

SolverTimeoutDen == 1000
DefaultSolverTimeout == Fin(1, SolverTimeoutDen)

Specials == {NaN, PInf, NInf}
ActVals == {Fin(i, 1) : i \in (-MaxAct)..MaxAct} \cup Specials
PosVals == {Fin(i, 1) : i \in (-MaxPos)..MaxPos} \cup Specials

SampleEePos == V(<<1, 0, 0>>)
SampleJacobian ==
    <<V(<<1, 1>>), V(<<0, 1>>), V(<<0, 0>>),
      V(<<0, 0>>), V(<<0, 0>>), V(<<1, 1>>)>>

\* (ee_pos, jacobian) as the caller may supply them.
EeJacobianSet ==
    {<<None, None>>, <<Some(SampleEePos), Some(SampleJacobian)>>}

CurrentStates(n) ==
    {[joint_pos |-> None, ee_pos |-> None, jacobian |-> None]}
    \cup {[joint_pos |-> Some(q), ee_pos |-> ej[1], jacobian |-> ej[2]] :
             q \in [1..n -> PosVals], ej \in EeJacobianSet}

NoState == [joint_pos |-> None, ee_pos |-> None, jacobian |-> None]
NoCall == [action |-> <<>>, current_state |-> NoState, solver |-> NoSolve]
NoResult ==
    [ret |-> <<>>, event |-> LogEvent(<<>>, <<>>, <<>>, 0, 0),
     path |-> "none", exc |-> "none"]
NoArrays == [action |-> <<>>, current_state |-> NoState]

NumJoints(self) == Len(self.joint_limits.pos_min)

----------------------------------------------------------------------------
(* KinematicsSolver (src/src/arcs/geo/kinematics.py).                      *)
(*                                                                         *)
(* Angles are counted in quarter turns, so that the rotation of a revolute *)
(* joint by a whole number of quarter turns about a coordinate axis is an  *)
(* exact matrix.  Lengths are exact rationals.                             *)

Eye3 == <<V(<<1, 0, 0>>), V(<<0, 1, 0>>), V(<<0, 0, 1>>)>>
Zero3 == V(<<0, 0, 0>>)

MatVec(m, v) == [r \in 1..3 |-> Dot(m[r], v)]
MatMul(a, b) ==
    [r \in 1..3 |-> [c \in 1..3 |->
        SumSeq([k \in 1..3 |-> FMul(a[r][k], b[k][c])])]]
MatAdd(a, b) == [r \in 1..3 |-> [c \in 1..3 |-> FAdd(a[r][c], b[r][c])]]
MatScale(a, s) == [r \in 1..3 |-> [c \in 1..3 |-> FMul(a[r][c], s)]]

\* A homogeneous transform [R t; 0 1], kept as its rotation block and its
\* translation column.
Transform(rot, translation) == [rot |-> rot, translation |-> translation]
EyeT == Transform(Eye3, Zero3)

\* a @ b for homogeneous transforms.  (A value is bound once by drawing it
\* from a one-element set.)
TMul(a, b) ==
    CHOOSE t \in {Transform(MatMul(av.rot, bv.rot),
                            VAdd(MatVec(av.rot, bv.translation), av.translation)) :
                      av \in {a}, bv \in {b}} : TRUE

\* The cross-product matrix of v.
Skew(v) ==
    <<<<Zero, FNeg(v[3]), v[2]>>,
      <<v[3], Zero, FNeg(v[1])>>,
      <<FNeg(v[2]), v[1], Zero>>>>

\* sin and cos of k quarter turns.
QuarterSin(k) == CASE k % 4 = 0 -> 0 [] k % 4 = 1 -> 1 [] k % 4 = 2 -> 0 [] OTHER -> -1
QuarterCos(k) == CASE k % 4 = 0 -> 1 [] k % 4 = 1 -> 0 [] k % 4 = 2 -> -1 [] OTHER -> 0

\* axis / norm(axis), for an axis along one coordinate direction.
Normalized(axis) ==
    LET norm == SumSeq([i \in 1..3 |-> FAbs(axis[i])])
    IN  [i \in 1..3 |-> FDiv(axis[i], norm)]

\* Rotation.from_rotvec(axis * q).as_matrix() for q quarter turns about the
\* unit vector axis: I + sin(q) K + (1 - cos(q)) K^2.
RotVecMatrix(axis, q) ==
    LET K == Skew(axis)
    IN  MatAdd(Eye3,
               MatAdd(MatScale(K, Fin(QuarterSin(q.n), 1)),
                      MatScale(MatMul(K, K), Fin(1 - QuarterCos(q.n), 1))))

\* KinematicsSolver._joint_motion_matrix
JointMotionMatrix(joint_type, axis, q) ==
    IF joint_type \in {"revolute", "continuous"}
    THEN Transform(RotVecMatrix(Normalized(axis), q), Zero3)
    ELSE IF joint_type = "prismatic"
    THEN Transform(Eye3, VScale(axis, q))
    ELSE EyeT

\* KinematicsSolver._origin_matrix, for an origin given by its xyz offset.
OriginMatrix(joint) == Transform(Eye3, joint.origin)

\* The attribute lists _build_chain fills from the joints of the chain, in
\* base-to-effector order.
ChainAttributes(urdf, base_link, end_link, chain) ==
    [urdf              |-> urdf,
     use_torch         |-> FALSE,
     base_link         |-> base_link,
     end_effector_link |-> end_link,
     chain_joint_names |-> [i \in Idx(chain) |-> chain[i].name],
     joint_limits      |-> [i \in Idx(chain) |->
                               IF chain[i].limit = None
                               THEN [lower |-> None, upper |-> None]
                               ELSE chain[i].limit[1]],
     origin_mats       |-> [i \in Idx(chain) |-> OriginMatrix(chain[i])],
     axes              |-> [i \in Idx(chain) |-> chain[i].axis],
     joint_types       |-> [i \in Idx(chain) |-> chain[i].joint_type],
     link_from_joint   |-> [i \in Idx(chain) |-> chain[i].child]]

\* Variant of _validate_joint_limits that also rejects a value on a bound.
ValidateJointLimitsStrict(self, q) ==
    IF \E idx \in Idx(self.joint_limits) :
           LET lim == self.joint_limits[idx]
           IN  /\ lim.lower # None
               /\ lim.upper # None
               /\ (FLe(q[idx], lim.lower[1]) \/ FGe(q[idx], lim.upper[1]))
    THEN "ValueError: out of limits"
    ELSE "none"

\* KinematicsSolver._validate_joint_limits: the exception raised, if any.
ValidateJointLimits(self, q) ==
    IF \E idx \in Idx(self.joint_limits) :
           LET lim == self.joint_limits[idx]
           IN  /\ lim.lower # None
               /\ lim.upper # None
               /\ (FLt(q[idx], lim.lower[1]) \/ FGt(q[idx], lim.upper[1]))
    THEN "ValueError: out of limits"
    ELSE "none"

\* Variant of the chain composition that applies a joint's motion before
\* its origin transform.
RECURSIVE ChainPoseMotionFirst(_, _, _)
ChainPoseMotionFirst(self, cfg, n) ==
    IF n = 0 THEN EyeT
    ELSE TMul(TMul(ChainPoseMotionFirst(self, cfg, n - 1),
                   JointMotionMatrix(self.joint_types[n], self.axes[n],
                                     cfg[self.chain_joint_names[n]])),
              self.origin_mats[n])

\* The pose after the first n joints of the chain, for joint values cfg.
RECURSIVE ChainPose(_, _, _)
ChainPose(self, cfg, n) ==
    IF n = 0 THEN EyeT
    ELSE TMul(TMul(ChainPose(self, cfg, n - 1), self.origin_mats[n]),
              JointMotionMatrix(self.joint_types[n], self.axes[n],
                                cfg[self.chain_joint_names[n]]))

\* self._urdf.link_fk(cfg=joint_positions), turned into SE3 poses by link
\* name: the base link and the child link of every joint of the chain.
LinkFk(self, cfg) ==
    [link \in {self.base_link} \cup {self.link_from_joint[i] : i \in Idx(self.link_from_joint)} |->
        IF link = self.base_link THEN EyeT
        ELSE LET n == CHOOSE i \in Idx(self.link_from_joint) : self.link_from_joint[i] = link
             IN  ChainPose(self, cfg, n)]

KinRaise(exc) == [exc |-> exc, value |-> None, cfg |-> None]

\* KinematicsSolver.forward_kinematics for a 1-D q: the exception raised or
\* the value returned, and the joint values handed to link_fk.
ForwardKinematics(self, q, link_name) ==
    IF self.urdf = None THEN KinRaise("ValueError: URDF not loaded")
    ELSE IF Len(q) # Len(self.chain_joint_names)
    THEN KinRaise("ValueError: q dimension")
    ELSE IF ValidateJointLimits(self, q) # "none"
    THEN KinRaise(ValidateJointLimits(self, q))
    ELSE LET joint_positions ==
                 [name \in {self.chain_joint_names[i] : i \in Idx(q)} |->
                     q[CHOOSE i \in Idx(q) : self.chain_joint_names[i] = name]]
             link_poses == LinkFk(self, joint_positions)
         IN  IF link_name = None
             THEN [exc |-> "none", value |-> Some(link_poses),
                   cfg |-> Some(joint_positions)]
             ELSE IF link_name[1] \notin DOMAIN link_poses
             THEN [exc |-> "ValueError: link not found", value |-> None,
                   cfg |-> Some(joint_positions)]
             ELSE [exc |-> "none", value |-> Some(link_poses[link_name[1]]),
                   cfg |-> Some(joint_positions)]

----------------------------------------------------------------------------
(* Construction of a solver from a parsed description.                     *)
(*                                                                         *)
(* A description is what the URDF parser hands back: its links, its joints *)
(* and, when the parser provides one (the base_link attribute or           *)
(* get_root), the root link it determined, in field base.                  *)

Max(S) == CHOOSE x \in S : \A y \in S : y <= x

RECURSIVE Reverse(_)
Reverse(seq) ==
    IF seq = <<>> THEN <<>> ELSE Append(Reverse(Tail(seq)), Head(seq))

Parents(urdf) == {urdf.joints[i].parent : i \in Idx(urdf.joints)}
Children(urdf) == {urdf.joints[i].child : i \in Idx(urdf.joints)}

BaseLink(exc, name) == [exc |-> exc, name |-> name]

\* KinematicsSolver._get_base_link_name: the outcomes it can have.  roots[0]
\* is the first element of a list made from a set, so any candidate.
GetBaseLinkName(urdf) ==
    IF urdf.base # None THEN {BaseLink("none", urdf.base[1])}
    ELSE LET roots == Parents(urdf) \ Children(urdf)
         IN  IF roots = {}
             THEN {BaseLink("ValueError: Unable to determine base link", "")}
             ELSE {BaseLink("none", r) : r \in roots}

\* child_to_joint: of the joints with this child link, the last one listed.
ChildToJoint(urdf, link) ==
    LET js == {i \in Idx(urdf.joints) : urdf.joints[i].child = link}
    IN  IF js = {} THEN None ELSE Some(urdf.joints[Max(js)])

\* The while loop of _build_chain, from link back to base_link.  A walk of
\* more steps than there are joints has entered a cycle and never ends.
RECURSIVE WalkToBase(_, _, _, _, _)
WalkToBase(urdf, base_link, link, chain, fuel) ==
    IF link = base_link THEN [exc |-> "none", chain |-> chain]
    ELSE IF ChildToJoint(urdf, link) = None
    THEN [exc |-> "ValueError: Missing joint for link", chain |-> <<>>]
    ELSE IF fuel = 0 THEN [exc |-> "never returns", chain |-> <<>>]
    ELSE LET joint == ChildToJoint(urdf, link)[1]
         IN  WalkToBase(urdf, base_link, joint.parent, Append(chain, joint), fuel - 1)

\* Variant of _build_chain that leaves the chain in effector-to-base order.
BuildChainUnreversed(urdf, base_link, end_link) ==
    WalkToBase(urdf, base_link, end_link, <<>>, Len(urdf.joints))

\* KinematicsSolver._build_chain: the exception raised, or the chain in
\* base-to-effector order.
BuildChain(urdf, base_link, end_link) ==
    LET w == WalkToBase(urdf, base_link, end_link, <<>>, Len(urdf.joints))
    IN  [exc |-> w.exc, chain |-> Reverse(w.chain)]

Constructed(exc, self) == [exc |-> exc, self |-> self]

\* KinematicsSolver(urdf_path, end_effector_link, use_torch): loaded is what
\* path validation and the parser gave for urdf_path, base the outcome of
\* _get_base_link_name.  An exception leaves the caller without an object.
KinematicsSolverNew(loaded, end_effector_link, use_torch, base) ==
    IF loaded.exc # "none" THEN Constructed(loaded.exc, None)
    ELSE IF base.exc # "none" THEN Constructed(base.exc, None)
    ELSE IF end_effector_link = None /\ loaded.urdf.links = <<>>
    THEN Constructed("ValueError: URDF has no links", None)
    ELSE LET urdf == loaded.urdf
             end_link == IF end_effector_link = None
                         THEN urdf.links[Len(urdf.links)]
                         ELSE end_effector_link[1]
             built == BuildChain(urdf, base.name, end_link)
         IN  IF built.exc # "none" THEN Constructed(built.exc, None)
             ELSE Constructed("none",
                      Some([ChainAttributes(Some(urdf), base.name, end_link, built.chain)
                                EXCEPT !.use_torch = use_torch]))

\* URDFParser.load succeeded with this description.
Loaded(urdf) == [exc |-> "none", urdf |-> urdf]

----------------------------------------------------------------------------
(* Batched forward kinematics.                                             *)

\* KinematicsSolver._joint_motion_matrix_torch, one row: the axis is
\* normalized for every joint type.
JointMotionMatrixTorch(joint_type, axis, q) ==
    IF joint_type \in {"revolute", "continuous"}
    THEN Transform(RotVecMatrix(Normalized(axis), q), Zero3)
    ELSE IF joint_type = "prismatic"
    THEN Transform(Eye3, VScale(Normalized(axis), q))
    ELSE EyeT

\* The loop of _fk_batch_torch for one row: the pose after joints 1..n.
RECURSIVE TorchPose(_, _, _)
TorchPose(self, row, n) ==
    IF n = 0 THEN EyeT
    ELSE TMul(TMul(TorchPose(self, row, n - 1), self.origin_mats[n]),
              JointMotionMatrixTorch(self.joint_types[n], self.axes[n], row[n]))

\* KinematicsSolver._fk_batch_torch for a batch q of rows of equal length.
FkBatchTorch(self, q, link_name) ==
    LET in_chain == {i \in Idx(self.link_from_joint) : self.link_from_joint[i] = link_name}
        target == IF in_chain = {} THEN Len(self.link_from_joint) ELSE Max(in_chain)
    IN  IF link_name = self.base_link
        THEN [exc |-> "none", value |-> Some([i \in Idx(q) |-> EyeT]), cfg |-> None]
        ELSE IF in_chain = {} /\ link_name # self.end_effector_link
        THEN KinRaise("ValueError: link not found in serial chain")
        ELSE IF Len(q[1]) < target
        THEN KinRaise("IndexError")
        ELSE [exc |-> "none",
              value |-> Some([i \in Idx(q) |-> TorchPose(self, q[i], target)]),
              cfg |-> None]

\* The rows of a list comprehension over forward_kinematics: the exception
\* of the first row that raises, or the list of the rows' values.
RowsOf(results) ==
    CHOOSE r \in
      {IF \E i \in Idx(rows) : rows[i].exc # "none"
       THEN KinRaise(rows[CHOOSE i \in Idx(rows) :
                             /\ rows[i].exc # "none"
                             /\ \A j \in 1..(i - 1) : rows[j].exc = "none"].exc)
       ELSE [exc |-> "none",
             value |-> Some([i \in Idx(rows) |-> rows[i].value[1]]),
             cfg |-> None] :
          rows \in {results}} : TRUE

\* KinematicsSolver.forward_kinematics for a 2-D q (a non-empty sequence of
\* rows of equal length).
ForwardKinematicsBatch(self, torch_ok, q, link_name) ==
    IF self.urdf = None THEN KinRaise("ValueError: URDF not loaded")
    ELSE IF self.use_torch /\ torch_ok /\ link_name # None
    THEN FkBatchTorch(self, q, link_name[1])
    ELSE RowsOf([i \in Idx(q) |-> ForwardKinematics(self, q[i], link_name)])

----------------------------------------------------------------------------
(* The geometric Jacobian.                                                 *)

Cross(a, b) ==
    <<FSub(FMul(a[2], b[3]), FMul(a[3], b[2])),
      FSub(FMul(a[3], b[1]), FMul(a[1], b[3])),
      FSub(FMul(a[1], b[2]), FMul(a[2], b[1]))>>

\* The first loop of jacobian: T after the first n joints.
RECURSIVE JacobianPose(_, _, _)
JacobianPose(self, q, n) ==
    IF n = 0 THEN EyeT
    ELSE TMul(TMul(JacobianPose(self, q, n - 1), self.origin_mats[n]),
              JointMotionMatrix(self.joint_types[n], self.axes[n], q[n]))

\* T_joint of joint idx: the frame before the joint's own motion.
JointFrame(self, q, idx) ==
    TMul(JacobianPose(self, q, idx - 1), self.origin_mats[idx])

\* The body of the second loop of jacobian for one joint, given the axis in
\* the world frame and p_ee - p_joint.  (A value is bound once by drawing it
\* from a one-element set.)
ColumnOf(joint_type, axis_world, offset) ==
    CHOOSE col \in {IF joint_type \in {"revolute", "continuous"}
                    THEN Cross(a, d) \o a
                    ELSE IF joint_type = "prismatic"
                    THEN a \o Zero3
                    ELSE Zero3 \o Zero3 :
                       a \in {axis_world}, d \in {offset}} : TRUE

\* Column idx of J: rows 1..3 linear, rows 4..6 angular.
JacobianColumn(self, q, idx) ==
    CHOOSE col \in {ColumnOf(self.joint_types[idx],
                             MatVec(T_joint.rot, self.axes[idx]),
                             VSub(p_ee, T_joint.translation)) :
                       T_joint \in {JointFrame(self, q, idx)},
                       p_ee \in {JacobianPose(self, q, Len(q)).translation}} : TRUE

\* What np.linalg.cond can do: return a number, or raise LinAlgError.
CondOutcomes == {"value", "LinAlgError"}

\* KinematicsSolver.jacobian: J as the sequence of its columns.  cond is the
\* outcome of np.linalg.cond, which is called when J is not empty.
Jacobian(self, q, cond) ==
    IF self.urdf = None THEN KinRaise("ValueError: URDF not loaded")
    ELSE IF Len(q) # Len(self.chain_joint_names)
    THEN KinRaise("ValueError: q dimension")
    ELSE IF ValidateJointLimits(self, q) # "none"
    THEN KinRaise(ValidateJointLimits(self, q))
    ELSE IF Len(q) > 0 /\ cond = "LinAlgError"
    THEN KinRaise("LinAlgError")
    ELSE [exc |-> "none",
          value |-> Some([idx \in Idx(q) |-> JacobianColumn(self, q, idx)]),
          cfg |-> None]

----------------------------------------------------------------------------
(* Inverse kinematics.                                                     *)
(*                                                                         *)
(* The update adds an increment in radians to the joint vector.  For a     *)
(* revolute or continuous joint the increment is turned into quarter turns *)
(* with pi = 22/7, and only runs whose revolute values stay whole numbers  *)
(* of quarter turns are explored.                                          *)

IkTolDen == 10000
IkTol == Fin(1, IkTolDen)
QuarterTurnsPerRadian == Fin(7, 11)

\* np.linalg.norm(error) < tol: a component of size tol or more decides it.
NormBelow(error, tol) ==
    /\ \A i \in Idx(error) : FLt(FAbs(error[i]), tol)
    /\ FLt(Dot(error, error), FMul(tol, tol))

\* pinv(A) @ e for A with the one column c1.
PinvOne(c1, e) ==
    IF Dot(c1, c1) = Zero THEN <<Zero>>
    ELSE <<FDiv(Dot(c1, e), Dot(c1, c1))>>

\* pinv(A) @ e for A with columns c1, c2, from a = c1.c1, b = c1.c2,
\* c = c2.c2, g1 = c1.e, g2 = c2.e: the least-squares solution when A has
\* rank 2, A^T e / |A|^2 when it has rank 1, zero when A is zero.
PinvTwo(a, b, c, g1, g2) ==
    LET det == FSub(FMul(a, c), FMul(b, b))
    IN  IF det # Zero
        THEN <<FDiv(FSub(FMul(c, g1), FMul(b, g2)), det),
               FDiv(FSub(FMul(a, g2), FMul(b, g1)), det)>>
        ELSE IF FAdd(a, c) = Zero THEN <<Zero, Zero>>
        ELSE <<FDiv(g1, FAdd(a, c)), FDiv(g2, FAdd(a, c))>>

\* np.linalg.pinv(J[:3, :]) @ error, for J with one or two columns.
PinvApply(J, error) ==
    CHOOSE dq \in {IF Len(Jv) = 1
                   THEN PinvOne(SubSeq(Jv[1], 1, 3), e)
                   ELSE CHOOSE r \in {PinvTwo(a, b, c, g1, g2) :
                                         a \in {Dot(SubSeq(Jv[1], 1, 3), SubSeq(Jv[1], 1, 3))},
                                         b \in {Dot(SubSeq(Jv[1], 1, 3), SubSeq(Jv[2], 1, 3))},
                                         c \in {Dot(SubSeq(Jv[2], 1, 3), SubSeq(Jv[2], 1, 3))},
                                         g1 \in {Dot(SubSeq(Jv[1], 1, 3), e)},
                                         g2 \in {Dot(SubSeq(Jv[2], 1, 3), e)}} : TRUE :
                      Jv \in {J}, e \in {error}} : TRUE

\* q + dq, the increment of an angle counted in quarter turns.
IkUpdate(self, q, dq) ==
    [i \in Idx(q) |->
        IF self.joint_types[i] \in {"revolute", "continuous"}
        THEN FAdd(q[i], FMul(dq[i], QuarterTurnsPerRadian))
        ELSE FAdd(q[i], dq[i])]

WholeQuarterTurns(self, q) ==
    \A i \in Idx(q) :
        self.joint_types[i] \in {"revolute", "continuous"} => q[i].d = 1

IkReturn(exc, value, evaluated, explored) ==
    [exc |-> exc, value |-> value, evaluated |-> evaluated, explored |-> explored]

\* The tail of one pass of the loop of inverse_kinematics, after
\* forward_kinematics returned the pose current: the vector to return, the
\* exception jacobian raised, or the vector for the next pass.
IkStep(self, target, q, current) ==
    CHOOSE r \in {IF NormBelow(error, IkTol)
                  THEN [done |-> TRUE, exc |-> "none", q |-> q]
                  ELSE CHOOSE r2 \in
                         {IF J.exc # "none"
                          THEN [done |-> FALSE, exc |-> J.exc, q |-> q]
                          ELSE [done |-> FALSE, exc |-> "none",
                                q |-> IkUpdate(self, q, PinvApply(J.value[1], error))] :
                             J \in {Jacobian(self, q, "value")}} : TRUE :
                     error \in {VSub(target, current.translation)}} : TRUE

\* The for loop of inverse_kinematics with iters passes left: the exception
\* raised or the vector returned, and the vectors forward_kinematics was
\* called on.
RECURSIVE IkLoop(_, _, _, _, _)
IkLoop(self, target, q, iters, evaluated) ==
    IF iters = 0 THEN IkReturn("none", Some(q), evaluated, TRUE)
    ELSE CHOOSE r \in
           {IF current.exc # "none"
            THEN IkReturn(current.exc, None, Append(evaluated, q), TRUE)
            ELSE CHOOSE r2 \in
                   {IF step.done
                    THEN IkReturn("none", Some(q), Append(evaluated, q), TRUE)
                    ELSE IF step.exc # "none"
                    THEN IkReturn(step.exc, None, Append(evaluated, q), TRUE)
                    ELSE IF ~WholeQuarterTurns(self, step.q)
                    THEN IkReturn("none", None, Append(evaluated, q), FALSE)
                    ELSE IkLoop(self, target, step.q, iters - 1, Append(evaluated, q)) :
                       step \in {IkStep(self, target, q, current.value[1])}} : TRUE :
              current \in {ForwardKinematics(self, q, Some(self.end_effector_link))}} : TRUE

\* KinematicsSolver.inverse_kinematics
InverseKinematics(self, target, q_init, max_iters) ==
    CHOOSE r \in {IkLoop(self, target, q0, max_iters, <<>>) :
                     q0 \in {IF q_init = None
                             THEN [i \in Idx(self.chain_joint_names) |-> Zero]
                             ELSE q_init[1]}} : TRUE

----------------------------------------------------------------------------
(* Robot descriptions and kinematics inputs.                               *)

Limit(lower, upper) == Some([lower |-> lower, upper |-> upper])

Joint(name, joint_type, parent, child, origin, axis, limit) ==
    [name |-> name, joint_type |-> joint_type, parent |-> parent,
     child |-> child, origin |-> origin, axis |-> axis, limit |-> limit]

\* The mock robot of tests/test_geometry.py: a revolute joint about Z at
\* (0,0,1), then a prismatic joint along X at (1,0,0).
MockRobot ==
    [base |-> Some("base_link"), end |-> "link2",
     links |-> <<"base_link", "link1", "link2">>,
     joints |-> <<Joint("joint1", "revolute", "base_link", "link1",
                        V(<<0, 0, 1>>), V(<<0, 0, 1>>),
                        Limit(Some(Fin(-2, 1)), Some(Fin(2, 1)))),
                  Joint("joint2", "prismatic", "link1", "link2",
                        V(<<1, 0, 0>>), V(<<1, 0, 0>>),
                        Limit(Some(Fin(0, 1)), Some(Fin(1, 1))))>>]

\* A continuous joint without limits, then a prismatic joint along a
\* non-unit axis whose limit declares only a lower bound.
OpenRobot ==
    [base |-> Some("base"), end |-> "tool",
     links |-> <<"base", "arm", "tool">>,
     joints |-> <<Joint("swivel", "continuous", "base", "arm",
                        V(<<0, 0, 0>>), V(<<1, 0, 0>>), None),
                  Joint("slide", "prismatic", "arm", "tool",
                        V(<<0, 1, 0>>), V(<<0, 2, 0>>),
                        Limit(Some(Fin(-1, 1)), None))>>]

\* A fixed joint, then a revolute joint about -Y with limits.
FixedRobot ==
    [base |-> Some("base"), end |-> "hand",
     links |-> <<"base", "riser", "hand">>,
     joints |-> <<Joint("mount", "fixed", "base", "riser",
                        V(<<0, 0, 2>>), V(<<0, 0, 1>>), None),
                  Joint("wrist", "revolute", "riser", "hand",
                        V(<<1, 0, 0>>), V(<<0, -1, 0>>),
                        Limit(Some(Fin(-1, 1)), Some(Fin(3, 1))))>>]

\* A revolute joint whose declared axis is not a unit vector, then a fixed
\* link of length 1.
ScaledRobot ==
    [base |-> Some("base"), end |-> "tip",
     links |-> <<"base", "arm", "tip">>,
     joints |-> <<Joint("swing", "revolute", "base", "arm",
                        V(<<0, 0, 0>>), V(<<0, 0, 2>>),
                        Limit(Some(Fin(-2, 1)), Some(Fin(2, 1)))),
                  Joint("flange", "fixed", "arm", "tip",
                        V(<<1, 0, 0>>), V(<<0, 0, 1>>), None)>>]

Robots == {MockRobot, OpenRobot, FixedRobot, ScaledRobot}

QVals == {Fin(i, 1) : i \in (-MaxQ)..MaxQ}

\* Joint vectors one shorter than, as long as, and one longer than the chain.
QVectors(n) == UNION {[1..m -> QVals] : m \in {n - 1, n, n + 1}}

\* The second configuration of test_kinematics_solver_with_mock_urdf: a
\* quarter turn (pi/2) of joint1 and 0.5 of joint2.
TestConfigurations(self) ==
    IF self.urdf = Some(MockRobot) THEN {<<Fin(1, 1), Fin(1, 2)>>} ELSE {}

LinkNames(self) ==
    {None, Some(self.end_effector_link), Some(self.link_from_joint[1]),
     Some("no_such_link")}

\* Batches of 1..MaxBatch rows of equal length: one shorter than the chain,
\* as long as the chain, and as long as the chain with one more value.
BatchQVals == {Fin(i, 1) : i \in (-MaxBatchQ)..MaxBatchQ}
BatchRows(n) ==
    {[1..(n - 1) -> BatchQVals], [1..n -> BatchQVals],
     {Append(row, Zero) : row \in [1..n -> BatchQVals]}}
Batches(n) ==
    UNION {[1..k -> rows] : k \in 1..MaxBatch, rows \in BatchRows(n)}

KinCall(op, q, link_name, cond, target, max_iters) ==
    [op |-> op, q |-> q, link_name |-> link_name, cond |-> cond,
     target |-> target, max_iters |-> max_iters]

NoKinCall == KinCall("none", <<>>, None, "none", None, 0)
NoKinResult == KinRaise("none")

NoSolverResult ==
    [op |-> "none", path |-> None, args |-> None, exc |-> "none", solver |-> None,
     value |-> None]

\* A solver without a URDF (urdf_path = None).
EmptySolver == ChainAttributes(None, "", "", <<>>)

\* The solver constructed for a robot description and its end-effector.
SolverFor(robot, use_torch) ==
    KinematicsSolverNew(Loaded(robot), Some(robot.end), use_torch,
                        CHOOSE base \in GetBaseLinkName(robot) : TRUE).self[1]

----------------------------------------------------------------------------
(* The kinematics solver, queried repeatedly.                              *)

KinIdle ==
    /\ kin = EmptySolver
    /\ kpc = "idle"
    /\ kcall = NoKinCall
    /\ kres = NoKinResult
    /\ torch = FALSE
    /\ ktrace = <<>>

\* No kinematics service has been requested.
ServiceIdle ==
    /\ service = None
    /\ created = <<>>
    /\ sres = NoSolverResult

SafetyIdle ==
    /\ filt = SafetyFilterInit([pos_min |-> <<>>, pos_max |-> <<>>,
                                vel_max |-> <<>>, torque_max |-> <<>>],
                               None, Fin(1, 1), FALSE, DefaultSolverTimeout)
    /\ cp = FALSE
    /\ pc = "idle"
    /\ call = NoCall
    /\ res = NoResult
    /\ arrays = NoArrays

KinInit ==
    /\ \E robot \in Robots : kin = SolverFor(robot, FALSE)
    /\ kpc = "idle"
    /\ kcall = NoKinCall
    /\ kres = NoKinResult
    /\ torch = FALSE
    /\ ktrace = <<>>
    /\ SafetyIdle
    /\ ServiceIdle
    /\ ExtIdle

\* One call of forward_kinematics with a 1-D joint vector.
ForwardKinematicsCall ==
    /\ kpc = "idle"
    /\ \E q \in QVectors(Len(kin.chain_joint_names)) \cup TestConfigurations(kin),
          link_name \in LinkNames(kin) :
          /\ kcall' = KinCall("fk", q, link_name, "none", None, 0)
          /\ kres' = ForwardKinematics(kin, q, link_name)
    /\ kpc' = "returned"
    /\ UNCHANGED <<kin, torch, ktrace, safetyVars, svcVars>>
    /\ ExtFrame({})

\* One call of jacobian.
JacobianCall ==
    /\ kpc = "idle"
    /\ \E q \in QVectors(Len(kin.chain_joint_names)), cond \in CondOutcomes :
          /\ kcall' = KinCall("jacobian", q, None, cond, None, 0)
          /\ kres' = Jacobian(kin, q, cond)
    /\ kpc' = "returned"
    /\ UNCHANGED <<kin, torch, ktrace, safetyVars, svcVars>>
    /\ ExtFrame({})

\* The caller consumes the result.
NextQuery ==
    /\ kpc = "returned"
    /\ kpc' = "idle"
    /\ kcall' = NoKinCall
    /\ kres' = NoKinResult
    /\ ktrace' = <<>>
    /\ UNCHANGED <<kin, torch, safetyVars, svcVars>>
    /\ ExtFrame({})

KinNext ==
    \/ ForwardKinematicsCall
    \/ JacobianCall
    \/ NextQuery

SpecKin == KinInit /\ [][KinNext]_vars

----------------------------------------------------------------------------
(* The kinematics solver, queried with batches; with and without the       *)
(* accelerated path requested, with and without torch installed.           *)

BatchInit ==
    /\ \E robot \in Robots, use_torch \in BOOLEAN :
          kin = SolverFor(robot, use_torch)
    /\ kpc = "idle"
    /\ kcall = NoKinCall
    /\ kres = NoKinResult
    /\ torch \in BOOLEAN
    /\ ktrace = <<>>
    /\ SafetyIdle
    /\ ServiceIdle
    /\ ExtIdle

\* One call of forward_kinematics with a 2-D array of joint vectors.
ForwardKinematicsBatchCall ==
    /\ kpc = "idle"
    /\ \E q \in Batches(Len(kin.chain_joint_names)),
          link_name \in LinkNames(kin) \cup {Some(kin.base_link)} :
          /\ kcall' = KinCall("fk_batch", q, link_name, "none", None, 0)
          /\ kres' = ForwardKinematicsBatch(kin, torch, q, link_name)
    /\ kpc' = "returned"
    /\ UNCHANGED <<kin, torch, ktrace, safetyVars, svcVars>>
    /\ ExtFrame({})

BatchNext == ForwardKinematicsBatchCall \/ NextQuery

SpecBatch == BatchInit /\ [][BatchNext]_vars

----------------------------------------------------------------------------
(* The kinematics solver, asked for inverse kinematics.                    *)

IkQVals == {Fin(i, 1) : i \in (-MaxIkQ)..MaxIkQ}

\* Initial guesses of the right length, and no initial guess.
IkGuesses(n) == {None} \cup {Some(q) : q \in [1..n -> IkQVals]}

\* Target coordinates: small integers, and 22/7 (pi), which a revolute
\* joint at distance 1 reaches for in whole quarter turns.
IkTargetVals == {Fin(i, 1) : i \in (-MaxIkT)..MaxIkT} \cup {Fin(22, 7)}

IkTargets == [1..3 -> IkTargetVals]

IkInit ==
    /\ \E robot \in Robots : kin = SolverFor(robot, FALSE)
    /\ kpc = "idle"
    /\ kcall = NoKinCall
    /\ kres = NoKinResult
    /\ torch = FALSE
    /\ ktrace = <<>>
    /\ SafetyIdle
    /\ ServiceIdle
    /\ ExtIdle

\* One call of inverse_kinematics; ktrace keeps the vectors it evaluated.
InverseKinematicsCall ==
    /\ kpc = "idle"
    /\ \E q_init \in IkGuesses(Len(kin.chain_joint_names)),
          target \in IkTargets, max_iters \in 0..MaxIters :
          \E r \in {InverseKinematics(kin, target, q_init, max_iters)} :
              /\ r.explored
              /\ kcall' = KinCall("inverse_kinematics",
                                  IF q_init = None THEN <<>> ELSE q_init[1],
                                  None, "none", Some(target), max_iters)
              /\ kres' = [exc |-> r.exc, value |-> r.value, cfg |-> None]
              /\ ktrace' = r.evaluated
    /\ kpc' = "returned"
    /\ UNCHANGED <<kin, torch, safetyVars, svcVars>>
    /\ ExtFrame({})

IkNext ==
    \/ InverseKinematicsCall
    \/ NextQuery

SpecIk == IkInit /\ [][IkNext]_vars

----------------------------------------------------------------------------
(* Solvers constructed from parsed descriptions.                           *)

ChainLinks == <<"a", "b", "c">>

LinkSet == {ChainLinks[i] : i \in Idx(ChainLinks)}

\* The joints a description can list: fixed joints between two different
\* links, named by their place in the list.
ChainJoint(i, parent, child) ==
    Joint(CASE i = 1 -> "j1" [] i = 2 -> "j2" [] i = 3 -> "j3" [] OTHER -> "j4",
          "fixed", parent, child, V(<<1, 0, 0>>), V(<<0, 0, 1>>), None)

LinkPairs ==
    {pair \in [parent : LinkSet, child : LinkSet] :
        pair.parent # pair.child}

JointLists ==
    UNION {{[i \in 1..n |-> ChainJoint(i, pcs[i].parent, pcs[i].child)] :
               pcs \in [1..n -> LinkPairs]} : n \in 0..MaxJoints}

\* Parsed descriptions: base is the root link the parsing library reports (a
\* link that is no joint's child), or None for a description object without
\* base_link and get_root.
ChainDescriptions ==
    UNION {{[base |-> base, end |-> "c", links |-> ChainLinks, joints |-> joints] :
               base \in {None} \cup
                        {Some(l) : l \in LinkSet \
                                         {joints[i].child : i \in Idx(joints)}}} :
              joints \in JointLists}

ChainInit ==
    /\ KinIdle
    /\ SafetyIdle
    /\ ServiceIdle
    /\ ExtIdle

\* KinematicsSolver(urdf_path, end_effector_link) for a path whose file
\* parses to urdf.  kin is the object the caller holds afterwards.
ConstructCall ==
    /\ kpc = "idle"
    /\ \E urdf \in ChainDescriptions,
          end_effector_link \in {None} \cup {Some(l) : l \in LinkSet} :
          \E base \in GetBaseLinkName(urdf) :
              \E new \in {KinematicsSolverNew(Loaded(urdf), end_effector_link,
                                              FALSE, base)} :
                  /\ kcall' = KinCall("construct", <<>>, end_effector_link, "none",
                                      Some([urdf |-> urdf, base |-> base]), 0)
                  /\ kres' = [exc |-> new.exc, value |-> new.self, cfg |-> None]
                  /\ kin' = IF new.exc = "none" THEN new.self[1] ELSE kin
    /\ kpc' = "returned"
    /\ UNCHANGED <<torch, ktrace, safetyVars, svcVars>>
    /\ ExtFrame({})

\* The caller drops the solver.
DropSolver ==
    /\ kpc = "returned"
    /\ kpc' = "idle"
    /\ kin' = EmptySolver
    /\ kcall' = NoKinCall
    /\ kres' = NoKinResult
    /\ UNCHANGED <<torch, ktrace, safetyVars, svcVars>>
    /\ ExtFrame({})

ChainNext ==
    \/ ConstructCall
    \/ DropSolver

SpecChain == ChainInit /\ [][ChainNext]_vars

----------------------------------------------------------------------------
(* KinematicsService (src/src/arcs/api/services/kinematics_service.py) and *)
(* its singleton provider (src/src/arcs/api/dependencies.py).              *)

\* The methods class KinematicsSolver defines, and the constructors of SE3.
KinematicsSolverMethods == {"forward_kinematics", "jacobian", "inverse_kinematics"}
SE3Constructors == {"from_xyz_quat", "identity"}

\* A description without any joint: no base link can be determined.
JointlessRobot ==
    [base |-> None, end |-> "part", links |-> <<"part">>, joints |-> <<>>]

\* What path validation and the parser give for each path a request names.
UrdfFiles ==
    [path \in {"mock.urdf", "open.urdf", "jointless.urdf", "missing.urdf"} |->
        CASE path = "mock.urdf" -> Loaded(MockRobot)
          [] path = "open.urdf" -> Loaded(OpenRobot)
          [] path = "jointless.urdf" -> Loaded(JointlessRobot)
          [] OTHER -> [exc |-> "FileNotFoundError", urdf |-> None]]

\* KinematicsService.__init__
KinematicsServiceNew(urdf_path) == [solvers |-> <<>>, default_urdf |-> urdf_path]

\* get_kinematics_service: the singleton, created on first use.
GetKinematicsService(global) ==
    IF global = None THEN Some(KinematicsServiceNew(None)) ELSE global

Got(exc, solver, svc, made) ==
    [exc |-> exc, solver |-> solver, svc |-> svc, made |-> made]

\* Variant of get_solver that constructs a solver at every request.
GetSolverNoCache(svc, made, urdf_path, base) ==
    LET path == IF urdf_path # None THEN urdf_path ELSE svc.default_urdf
    IN  IF path = None THEN Got("ValueError: No URDF path provided", None, svc, made)
        ELSE LET new == KinematicsSolverNew(UrdfFiles[path[1]], None, FALSE, base)
                 log == Append(made, [path |-> path[1], exc |-> new.exc])
             IN  IF new.exc # "none" THEN Got(new.exc, None, svc, log)
                 ELSE LET handle == [id |-> Len(log), self |-> new.self[1]]
                      IN  Got("none", Some(handle),
                              [svc EXCEPT !.solvers = (path[1] :> handle) @@ svc.solvers],
                              log)

\* KinematicsService.get_solver: the exception raised or the solver
\* returned, the service afterwards, and the constructor calls made so far.
\* A solver object is known by the number of the constructor call that made it.
GetSolver(svc, made, urdf_path, base) ==
    LET path == IF urdf_path # None THEN urdf_path ELSE svc.default_urdf
    IN  IF path = None THEN Got("ValueError: No URDF path provided", None, svc, made)
        ELSE IF path[1] \in DOMAIN svc.solvers
        THEN Got("none", Some(svc.solvers[path[1]]), svc, made)
        ELSE LET new == KinematicsSolverNew(UrdfFiles[path[1]], None, FALSE, base)
                 log == Append(made, [path |-> path[1], exc |-> new.exc])
             IN  IF new.exc # "none" THEN Got(new.exc, None, svc, log)
                 ELSE LET handle == [id |-> Len(log), self |-> new.self[1]]
                      IN  Got("none", Some(handle),
                              [svc EXCEPT !.solvers = (path[1] :> handle) @@ svc.solvers],
                              log)

Served(op, path, args, exc, solver, value) ==
    [op |-> op, path |-> path, args |-> args, exc |-> exc, solver |-> solver,
     value |-> value]

\* KinematicsService.compute_jacobian after get_solver gave got: the
\* attribute lookup solver.compute_jacobian, the call, and the condition
\* number, +infinity when np.linalg.cond raises.
ComputeJacobian(got, urdf_path, joint_angles, cond) ==
    LET args == Some([joint_angles |-> joint_angles, cond |-> cond])
    IN  IF got.exc # "none"
        THEN Served("compute_jacobian", urdf_path, args, got.exc, None, None)
        ELSE IF "compute_jacobian" \notin KinematicsSolverMethods
        THEN Served("compute_jacobian", urdf_path, args, "AttributeError", got.solver, None)
        ELSE LET J == Jacobian(got.solver[1].self, joint_angles, "value")
             IN  IF J.exc # "none"
                 THEN Served("compute_jacobian", urdf_path, args, J.exc, got.solver, None)
                 ELSE Served("compute_jacobian", urdf_path, args, "none", got.solver,
                             Some([jacobian |-> J.value[1],
                                   condition_number |->
                                       IF cond = "LinAlgError" THEN "inf" ELSE "number"]))

\* KinematicsService.inverse_kinematics after get_solver gave got, without a
\* target quaternion: the target pose is built with SE3.from_translation,
\* then the solver is called with the keywords q0, max_iterations and
\* tolerance, which KinematicsSolver.inverse_kinematics does not accept.
ServiceInverseKinematics(got, urdf_path, target_position, initial_joints) ==
    LET args == Some([target_position |-> target_position,
                      initial_joints |-> initial_joints])
    IN  IF got.exc # "none"
        THEN Served("inverse_kinematics", urdf_path, args, got.exc, None, None)
        ELSE IF "from_translation" \notin SE3Constructors
        THEN Served("inverse_kinematics", urdf_path, args, "AttributeError", got.solver, None)
        ELSE Served("inverse_kinematics", urdf_path, args, "TypeError", got.solver, None)

----------------------------------------------------------------------------
(* The kinematics service, serving requests.                               *)

ServiceInit ==
    /\ ServiceIdle
    /\ ExtIdle
    /\ KinIdle
    /\ SafetyIdle

RequestPaths == {None} \cup {Some(path) : path \in DOMAIN UrdfFiles}

\* The outcomes of _get_base_link_name if this request constructs a solver.
BaseOutcomes(urdf_path) ==
    IF urdf_path = None \/ UrdfFiles[urdf_path[1]].exc # "none"
    THEN {BaseLink("none", "")}
    ELSE GetBaseLinkName(UrdfFiles[urdf_path[1]].urdf)

\* The end-effector position at the zero configuration of the robot a path
\* describes, when a solver can be built for it.
HomePositions(urdf_path) ==
    IF urdf_path = None THEN {Zero3}
    ELSE IF urdf_path[1] \notin {"mock.urdf", "open.urdf"} THEN {Zero3}
    ELSE {ForwardKinematics(SolverFor(UrdfFiles[urdf_path[1]].urdf, FALSE),
                            <<Zero, Zero>>,
                            Some(UrdfFiles[urdf_path[1]].urdf.end)).value[1].translation}

\* The request can be served within the bound on constructor calls.
WithinBound(urdf_path) ==
    IF Len(created) < MaxCreated \/ urdf_path = None THEN TRUE
    ELSE IF service = None THEN FALSE
    ELSE urdf_path[1] \in DOMAIN service[1].solvers

\* A request that obtains the service and asks it for a solver.
GetSolverRequest ==
    \E urdf_path \in RequestPaths : \E base \in BaseOutcomes(urdf_path) :
        /\ WithinBound(urdf_path)
        /\ \E got \in {GetSolver(GetKinematicsService(service)[1], created,
                                 urdf_path, base)} :
              /\ service' = Some(got.svc)
              /\ created' = got.made
              /\ sres' = Served("get_solver", urdf_path, None, got.exc, got.solver, None)
        /\ UNCHANGED <<safetyVars, kinVars>>
        /\ ExtFrame({})

\* A request for the Jacobian at the zero configuration.
ComputeJacobianRequest ==
    \E urdf_path \in RequestPaths, cond \in CondOutcomes :
      \E base \in BaseOutcomes(urdf_path) :
        /\ WithinBound(urdf_path)
        /\ \E got \in {GetSolver(GetKinematicsService(service)[1], created,
                                 urdf_path, base)} :
              /\ service' = Some(got.svc)
              /\ created' = got.made
              /\ sres' = ComputeJacobian(got, urdf_path, <<Zero, Zero>>, cond)
        /\ UNCHANGED <<safetyVars, kinVars>>
        /\ ExtFrame({})

\* A request for inverse kinematics, asking for the position the robot's
\* end-effector has at the zero configuration (or at the origin) and
\* starting from the zero configuration.
InverseKinematicsRequest ==
    \E urdf_path \in RequestPaths : \E base \in BaseOutcomes(urdf_path) :
      \E target_position \in HomePositions(urdf_path) :
        /\ WithinBound(urdf_path)
        /\ \E got \in {GetSolver(GetKinematicsService(service)[1], created,
                                 urdf_path, base)} :
              /\ service' = Some(got.svc)
              /\ created' = got.made
              /\ sres' = ServiceInverseKinematics(got, urdf_path, target_position,
                                                   <<Zero, Zero>>)
        /\ UNCHANGED <<safetyVars, kinVars>>
        /\ ExtFrame({})

ServiceNext ==
    \/ GetSolverRequest
    \/ ComputeJacobianRequest
    \/ InverseKinematicsRequest

SpecService == ServiceInit /\ [][ServiceNext]_vars

----------------------------------------------------------------------------
(* KinematicsService.get_solver called from several worker threads.  The   *)
(* method holds no lock, so a thread switch can fall between any two of    *)
(* its statements.                                                         *)

Threads == 1..MaxThreads

ThreadPaths == {"mock.urdf", "open.urdf", "missing.urdf"}

Frame(at, path, local, ret) ==
    [at |-> at, path |-> path, local |-> local, ret |-> ret]

NoFrame == Frame("idle", None, None, None)

ThreadsInit ==
    /\ threads = [t \in Threads |-> NoFrame]
    /\ service = Some(KinematicsServiceNew(None))
    /\ created = <<>>
    /\ sres = NoSolverResult
    /\ KinIdle
    /\ SafetyIdle
    /\ ExtIdleBut({"threads"})

\* A thread enters get_solver(urdf_path).
ThreadCall(t) ==
    /\ threads[t].at = "idle"
    /\ Len(created) < MaxCreated
    /\ \E path \in ThreadPaths :
          threads' = [threads EXCEPT ![t] = Frame("check", Some(path), None, None)]
    /\ UNCHANGED <<safetyVars, kinVars, svcVars>>
    /\ ExtFrame({"threads"})

\* if path not in self._solvers
ThreadCheck(t) ==
    /\ threads[t].at = "check"
    /\ threads' = [threads EXCEPT ![t].at =
                      IF threads[t].path[1] \in DOMAIN service[1].solvers
                      THEN "return" ELSE "construct"]
    /\ UNCHANGED <<safetyVars, kinVars, svcVars>>
    /\ ExtFrame({"threads"})

\* KinematicsSolver(urdf_path=path): the right-hand side of the assignment.
ThreadConstruct(t) ==
    /\ threads[t].at = "construct"
    /\ \E urdf_path \in {threads[t].path} : \E base \in BaseOutcomes(urdf_path) :
         \E new \in {KinematicsSolverNew(UrdfFiles[urdf_path[1]], None, FALSE, base)} :
            /\ created' = Append(created, [path |-> urdf_path[1], exc |-> new.exc])
            /\ threads' = [threads EXCEPT ![t] =
                  IF new.exc # "none"
                  THEN Frame("raised", urdf_path, None, None)
                  ELSE Frame("store", urdf_path,
                             Some([id |-> Len(created) + 1, self |-> new.self[1]]),
                             None)]
    /\ UNCHANGED <<safetyVars, kinVars, service, sres>>
    /\ ExtFrame({"threads"})

\* self._solvers[path] = <the solver constructed>
ThreadStore(t) ==
    /\ threads[t].at = "store"
    /\ service' = Some([service[1] EXCEPT !.solvers =
                           (threads[t].path[1] :> threads[t].local[1]) @@ @])
    /\ threads' = [threads EXCEPT ![t].at = "return"]
    /\ UNCHANGED <<safetyVars, kinVars, created, sres>>
    /\ ExtFrame({"threads"})

\* return self._solvers[path]
ThreadReturn(t) ==
    /\ threads[t].at = "return"
    /\ threads' = [threads EXCEPT ![t].at = "done",
                                  ![t].ret = Some(service[1].solvers[threads[t].path[1]])]
    /\ UNCHANGED <<safetyVars, kinVars, svcVars>>
    /\ ExtFrame({"threads"})

\* The caller is finished with the result or the exception.
ThreadFinish(t) ==
    /\ threads[t].at \in {"done", "raised"}
    /\ threads' = [threads EXCEPT ![t] = NoFrame]
    /\ UNCHANGED <<safetyVars, kinVars, svcVars>>
    /\ ExtFrame({"threads"})

ThreadsNext ==
    \E t \in Threads :
        \/ ThreadCall(t)
        \/ ThreadCheck(t)
        \/ ThreadConstruct(t)
        \/ ThreadStore(t)
        \/ ThreadReturn(t)
        \/ ThreadFinish(t)

SpecThreads == ThreadsInit /\ [][ThreadsNext]_vars

----------------------------------------------------------------------------
(* SO3 and SE3 (src/src/arcs/geo/se3.py).  A scipy Rotation is the unit    *)
(* quaternion [x, y, z, w] it stores; arithmetic is exact.                 *)

IsSquare(n) == \E r \in 0..n : r * r = n
IntSqrt(n) == CHOOSE r \in 0..n : r * r = n

\* np.linalg.norm of a vector whose squared length has a rational root.
Norm(v) ==
    LET sq == Dot(v, v)
    IN  Fin(IntSqrt(sq.n), IntSqrt(sq.d))

HasRationalNorm(v) ==
    LET sq == Dot(v, v)
    IN  sq.n > 0 /\ IsSquare(sq.n) /\ IsSquare(sq.d)

\* SO3.__init__: the normalized quaternion, and the Rotation made from it.
SO3New(quat) ==
    [quat |-> VDivS(quat, Norm(quat)), rot |-> VDivS(quat, Norm(quat))]

\* Rotation.__mul__: the rotation that applies q first, then p.
QuatMul(p, q) ==
    <<FAdd(FAdd(FMul(p[4], q[1]), FMul(p[1], q[4])),
           FSub(FMul(p[2], q[3]), FMul(p[3], q[2]))),
      FAdd(FAdd(FMul(p[4], q[2]), FMul(p[2], q[4])),
           FSub(FMul(p[3], q[1]), FMul(p[1], q[3]))),
      FAdd(FAdd(FMul(p[4], q[3]), FMul(p[3], q[4])),
           FSub(FMul(p[1], q[2]), FMul(p[2], q[1]))),
      FSub(FMul(p[4], q[4]),
           FAdd(FAdd(FMul(p[1], q[1]), FMul(p[2], q[2])), FMul(p[3], q[3])))>>

\* Rotation.inv
QuatInv(q) == <<FNeg(q[1]), FNeg(q[2]), FNeg(q[3]), q[4]>>

\* Rotation.as_matrix, for a unit quaternion.
QuatMatrix(q) ==
    LET two == Fin(2, 1)
        one == Fin(1, 1)
        xx == FMul(q[1], q[1])
        yy == FMul(q[2], q[2])
        zz == FMul(q[3], q[3])
        xy == FMul(q[1], q[2])
        xz == FMul(q[1], q[3])
        yz == FMul(q[2], q[3])
        xw == FMul(q[1], q[4])
        yw == FMul(q[2], q[4])
        zw == FMul(q[3], q[4])
    IN  <<<<FSub(one, FMul(two, FAdd(yy, zz))), FMul(two, FSub(xy, zw)),
            FMul(two, FAdd(xz, yw))>>,
          <<FMul(two, FAdd(xy, zw)), FSub(one, FMul(two, FAdd(xx, zz))),
            FMul(two, FSub(yz, xw))>>,
          <<FMul(two, FSub(xz, yw)), FMul(two, FAdd(yz, xw)),
            FSub(one, FMul(two, FAdd(xx, yy)))>>>>

\* Rotation.apply
RotApply(rot, v) ==
    CHOOSE r \in {MatVec(m, v) : m \in {QuatMatrix(rot)}} : TRUE

\* SO3.compose
SO3Compose(self, other) == SO3New(QuatMul(self.rot, other.rot))

\* SO3.as_matrix
SO3AsMatrix(self) == QuatMatrix(self.rot)

\* SE3.__init__
SE3New(rotation, translation) == [rotation |-> rotation, translation |-> translation]

\* SE3.from_xyz_quat
FromXyzQuat(xyz, quat) == SE3New(SO3New(quat), xyz)

\* SE3.identity
SE3Identity == SE3New(SO3New(V(<<0, 0, 0, 1>>)), Zero3)

\* Variant of SE3.compose that adds the translations without rotating.
SE3ComposeNoRotate(self, other) ==
    SE3New(SO3Compose(self.rotation, other.rotation),
           VAdd(other.translation, self.translation))

\* SE3.compose
SE3Compose(self, other) ==
    SE3New(SO3Compose(self.rotation, other.rotation),
           VAdd(RotApply(self.rotation.rot, other.translation), self.translation))

\* Variant of SE3.inverse that negates the translation without rotating it.
SE3InverseNoRotate(self) ==
    SE3New(SO3New(QuatInv(self.rotation.rot)), VNeg(self.translation))

\* SE3.inverse
SE3Inverse(self) ==
    LET inv_rot == SO3New(QuatInv(self.rotation.rot))
    IN  SE3New(inv_rot, VNeg(RotApply(inv_rot.rot, self.translation)))

\* SE3.transform_point
TransformPoint(self, point) ==
    VAdd(RotApply(self.rotation.rot, point), self.translation)

----------------------------------------------------------------------------
(* Transforms built, inverted, composed and applied to points.             *)

QuatInputs ==
    {quat \in [1..4 -> {Fin(i, 1) : i \in (-MaxQuat)..MaxQuat}] :
        HasRationalNorm(quat)}

PointInputs == [1..3 -> {Fin(i, 1) : i \in 0..MaxT}]

\* Second operands of compose: the identity, a translation, a third of a
\* turn about (1,1,1), a half turn about X with a translation, and a
\* rotation about (2,2,1) with a translation.
SE3Samples ==
    {SE3Identity,
     FromXyzQuat(V(<<1, 0, 0>>), V(<<0, 0, 0, 1>>)),
     FromXyzQuat(V(<<0, 0, 0>>), V(<<1, 1, 1, 1>>)),
     FromXyzQuat(V(<<0, 1, 2>>), V(<<1, 0, 0, 0>>)),
     FromXyzQuat(V(<<1, -1, 0>>), V(<<2, 2, 1, 0>>))}

PointSamples == {V(<<0, 0, 0>>), V(<<1, 0, 0>>), V(<<1, 2, 3>>)}

NoGeo == [op |-> "none", a |-> None, b |-> None, p |-> None, out |-> None]

\* SE3.from_xyz_quat(xyz, quat) gave the transform a.
GeoInit ==
    /\ \E xyz \in PointInputs, quat \in QuatInputs :
          geo = [NoGeo EXCEPT !.a = Some(FromXyzQuat(xyz, quat))]
    /\ SafetyIdle
    /\ KinIdle
    /\ ServiceIdle
    /\ ExtIdleBut({"geo"})

\* T_inv = T.inverse(); prod = T.compose(T_inv), as test_se3_inverse does.
ComposeWithInverse ==
    /\ geo.op = "none"
    /\ \E inv \in {SE3Inverse(geo.a[1])} :
          geo' = [geo EXCEPT !.op = "compose_inverse", !.b = Some(inv),
                             !.out = Some(SE3Compose(geo.a[1], inv))]
    /\ UNCHANGED <<safetyVars, kinVars, svcVars>>
    /\ ExtFrame({"geo"})

\* a.compose(b).transform_point(p) and a.transform_point(b.transform_point(p))
TransformComposed ==
    /\ geo.op = "none"
    /\ \E b \in SE3Samples, p \in PointSamples :
          geo' = [geo EXCEPT !.op = "transform_point", !.b = Some(b), !.p = Some(p),
                             !.out = Some([composed |->
                                               TransformPoint(SE3Compose(geo.a[1], b), p),
                                           nested |->
                                               TransformPoint(geo.a[1],
                                                              TransformPoint(b, p))])]
    /\ UNCHANGED <<safetyVars, kinVars, svcVars>>
    /\ ExtFrame({"geo"})

\* The results are dropped; the transform a is kept.
GeoNext ==
    /\ geo.op # "none"
    /\ geo' = [NoGeo EXCEPT !.a = geo.a]
    /\ UNCHANGED <<safetyVars, kinVars, svcVars>>
    /\ ExtFrame({"geo"})

Se3Next ==
    \/ ComposeWithInverse
    \/ TransformComposed
    \/ GeoNext

SpecSe3 == GeoInit /\ [][Se3Next]_vars

----------------------------------------------------------------------------
(* RolloutBuffer (src/src/arcs/rl/buffer.py): construction and add.        *)

RewardClipDefault == 1000

\* One row of the arrays obs, actions, rewards, dones, values, log_probs and
\* episode_starts.
Transition(obs, action, reward, done, value, log_prob, episode_start) ==
    [obs |-> obs, action |-> action, reward |-> reward, done |-> done,
     value |-> value, log_prob |-> log_prob, episode_start |-> episode_start]

ZeroTransition == Transition(Zero, Zero, Zero, Zero, Zero, Zero, FALSE)

\* RolloutBuffer.__init__ with the default gamma, gae_lambda and reward_clip.
RolloutBufferNew(buffer_size, allow_overwrite, raise_on_overflow) ==
    [rows              |-> [i \in 1..buffer_size |-> ZeroTransition],
     ptr               |-> 0,
     max_size          |-> buffer_size,
     full              |-> FALSE,
     allow_overwrite   |-> allow_overwrite,
     raise_on_overflow |-> raise_on_overflow,
     reward_clip       |-> Fin(RewardClipDefault, 1),
     last_done         |-> TRUE,
     full_emitted      |-> FALSE]

\* The property size.
BufferSize(self) == IF self.full THEN self.max_size ELSE self.ptr

\* float(np.clip(float(np.nan_to_num(reward, nan=0.0)), -clip, clip))
ClippedReward(self, reward) ==
    IF IsNan(reward) THEN Zero
    ELSE FMinimum(FMaximum(reward, FNeg(self.reward_clip)), self.reward_clip)

Added(exc, self, events) == [exc |-> exc, self |-> self, events |-> events]

\* Variant of add that returns silently on overflow whatever raise_on_overflow is.
RolloutBufferAddSilent(self, t) ==
    IF self.ptr >= self.max_size /\ ~self.allow_overwrite
    THEN Added("none", self, <<"buffer.overflow">>)
    ELSE IF self.max_size = 0 THEN Added("IndexError", self, <<>>)
    ELSE LET idx == IF self.full /\ self.allow_overwrite
                    THEN self.ptr % self.max_size ELSE self.ptr
             row == [t EXCEPT !.reward = ClippedReward(self, t.reward),
                              !.episode_start = IF t.episode_start = None
                                                THEN self.last_done
                                                ELSE t.episode_start[1]]
             ptr == self.ptr + 1
             stored == [self EXCEPT !.rows[idx + 1] = row,
                                    !.last_done = t.done # Zero,
                                    !.ptr = ptr]
         IN  IF ptr >= self.max_size
             THEN Added("none",
                        [stored EXCEPT !.full = TRUE,
                                       !.ptr = IF self.allow_overwrite THEN 0
                                               ELSE self.max_size,
                                       !.full_emitted = TRUE],
                        IF self.full_emitted THEN <<>> ELSE <<"buffer.full">>)
             ELSE Added("none", stored, <<>>)

\* RolloutBuffer.add: the exception raised, the buffer afterwards and the
\* events logged.  Row idx of the arrays is rows[idx + 1]; an array without
\* rows has no row to assign to.
RolloutBufferAdd(self, t) ==
    IF self.ptr >= self.max_size /\ ~self.allow_overwrite
    THEN IF self.raise_on_overflow
         THEN Added("BufferOverflowError", self, <<"buffer.overflow">>)
         ELSE Added("none", self, <<"buffer.overflow">>)
    ELSE IF self.max_size = 0 THEN Added("IndexError", self, <<>>)
    ELSE LET idx == IF self.full /\ self.allow_overwrite
                    THEN self.ptr % self.max_size ELSE self.ptr
             row == [t EXCEPT !.reward = ClippedReward(self, t.reward),
                              !.episode_start = IF t.episode_start = None
                                                THEN self.last_done
                                                ELSE t.episode_start[1]]
             ptr == self.ptr + 1
             stored == [self EXCEPT !.rows[idx + 1] = row,
                                    !.last_done = t.done # Zero,
                                    !.ptr = ptr]
         IN  IF ptr >= self.max_size
             THEN Added("none",
                        [stored EXCEPT !.full = TRUE,
                                       !.ptr = IF self.allow_overwrite THEN 0
                                               ELSE self.max_size,
                                       !.full_emitted = TRUE],
                        IF self.full_emitted THEN <<>> ELSE <<"buffer.full">>)
             ELSE Added("none", stored, <<>>)

----------------------------------------------------------------------------
(* A rollout buffer being filled.                                          *)

\* The transitions handed to add.
TransitionInputs ==
    {Transition(obs, Zero, reward, done, Zero, Zero, episode_start) :
        obs \in {Zero, Fin(1, 1)},
        reward \in {Fin(1, 1), NaN, PInf},
        done \in {Zero, Fin(1, 1)},
        episode_start \in {None, Some(FALSE)}}

BufferInit ==
    /\ \E buffer_size \in 0..MaxBuf, allow_overwrite \in BOOLEAN,
          raise_on_overflow \in BOOLEAN :
          buffer = RolloutBufferNew(buffer_size, allow_overwrite, raise_on_overflow)
    /\ bres = [adds |-> 0, exc |-> "none", events |-> <<>>]
    /\ SafetyIdle
    /\ KinIdle
    /\ ServiceIdle
    /\ ExtIdleBut({"buffer", "bres"})

\* One call of add.
BufferAddCall ==
    /\ bres.adds < MaxAdds
    /\ \E t \in TransitionInputs :
          \E r \in {RolloutBufferAdd(buffer, t)} :
              /\ buffer' = r.self
              /\ bres' = [adds |-> bres.adds + 1, exc |-> r.exc, events |-> r.events]
    /\ UNCHANGED <<safetyVars, kinVars, svcVars>>
    /\ ExtFrame({"buffer", "bres"})

BufferNext == BufferAddCall

SpecBuffer == BufferInit /\ [][BufferNext]_vars

----------------------------------------------------------------------------
(* RealRobotEnv (src/src/arcs/real/real_env.py) with its mock backend.     *)

Dof == 7
StepScaleDen == 100

\* np.pi in the comparison abs(pos) > np.pi: the joint values of the model
\* are multiples of 1/100 and whole numbers, none of them between pi and 22/7.
PiBound == Fin(22, 7)

\* RealRobotEnv.__init__
RealRobotEnvNew == [is_running |-> FALSE, mock_pos |-> [i \in 1..Dof |-> Zero]]

\* np.max(np.abs(action)) > 1.0: a comparison with NaN is False, and the
\* maximum of an array that holds a NaN is NaN.
ActionTooLarge(action) ==
    /\ ~AnyNan(action)
    /\ \E i \in Idx(action) : FGt(FAbs(action[i]), Fin(1, 1))

\* RealRobotEnv.is_safe
IsSafe(self, action) ==
    IF action # None /\ ActionTooLarge(action[1]) THEN FALSE
    ELSE IF \E i \in Idx(self.mock_pos) :
                ~IsNan(self.mock_pos[i]) /\ FGt(FAbs(self.mock_pos[i]), PiBound)
    THEN FALSE
    ELSE TRUE

\* RealRobotEnv.emergency_stop
EmergencyStop(self) == [self EXCEPT !.is_running = FALSE]

\* RealRobotEnv.reset
RealReset(self) == [self EXCEPT !.mock_pos = [i \in 1..Dof |-> Zero],
                                !.is_running = TRUE]

Stepped(exc, self) == [exc |-> exc, self |-> self]

\* RealRobotEnv.step: the exception raised, and the environment afterwards.
RealStep(self, action) ==
    IF ~self.is_running
    THEN Stepped("RuntimeError: Environment not running", self)
    ELSE IF ~IsSafe(self, Some(action))
    THEN Stepped("RuntimeError: Safety violation", EmergencyStop(self))
    ELSE Stepped("none",
                 [self EXCEPT !.mock_pos =
                     VAdd(self.mock_pos, VScale(action, Fin(1, StepScaleDen)))])

\* RealRobotEnv.set_state
RealSetState(self, joint_pos) == [self EXCEPT !.mock_pos = joint_pos]

\* RealRobotEnv.close
RealClose(self) == [self EXCEPT !.is_running = FALSE]

----------------------------------------------------------------------------
(* The real-robot environment, driven by a caller.                         *)

\* Actions: the first two components vary, the others are zero.
EnvActions ==
    {[i \in 1..Dof |-> IF i = 1 THEN a ELSE IF i = 2 THEN b ELSE Zero] :
        a \in {Zero, Fin(1, 1), Fin(-2, 1), Fin(3, 2), NaN},
        b \in {Zero, Fin(-1, 1), Fin(2, 1), PInf}}

\* Joint positions handed to set_state: home, and one beyond pi.
EnvStates ==
    {[i \in 1..Dof |-> Zero],
     [i \in 1..Dof |-> IF i = 1 THEN Fin(4, 1) ELSE Zero]}

Called(op, action, exc, steps) ==
    [op |-> op, action |-> action, exc |-> exc, steps |-> steps]

RealInit ==
    /\ renv = RealRobotEnvNew
    /\ rres = Called("init", None, "none", 0)
    /\ SafetyIdle
    /\ KinIdle
    /\ ServiceIdle
    /\ ExtIdleBut({"renv", "rres"})

ResetCall ==
    /\ renv' = RealReset(renv)
    /\ rres' = Called("reset", None, "none", rres.steps)
    /\ UNCHANGED <<safetyVars, kinVars, svcVars>>
    /\ ExtFrame({"renv", "rres"})

StepCall ==
    /\ rres.steps < MaxEnvSteps
    /\ \E action \in EnvActions : \E r \in {RealStep(renv, action)} :
          /\ renv' = r.self
          /\ rres' = Called("step", Some(action), r.exc, rres.steps + 1)
    /\ UNCHANGED <<safetyVars, kinVars, svcVars>>
    /\ ExtFrame({"renv", "rres"})

EmergencyStopCall ==
    /\ renv' = EmergencyStop(renv)
    /\ rres' = Called("emergency_stop", None, "none", rres.steps)
    /\ UNCHANGED <<safetyVars, kinVars, svcVars>>
    /\ ExtFrame({"renv", "rres"})

SetStateCall ==
    /\ \E joint_pos \in EnvStates : renv' = RealSetState(renv, joint_pos)
    /\ rres' = Called("set_state", None, "none", rres.steps)
    /\ UNCHANGED <<safetyVars, kinVars, svcVars>>
    /\ ExtFrame({"renv", "rres"})

CloseCall ==
    /\ renv' = RealClose(renv)
    /\ rres' = Called("close", None, "none", rres.steps)
    /\ UNCHANGED <<safetyVars, kinVars, svcVars>>
    /\ ExtFrame({"renv", "rres"})

RealNext ==
    \/ ResetCall
    \/ StepCall
    \/ EmergencyStopCall
    \/ SetStateCall
    \/ CloseCall

SpecReal == RealInit /\ [][RealNext]_vars

----------------------------------------------------------------------------
(* TeleoperationInterface.record_demonstration                             *)
(* (src/src/arcs/imitation/teleop.py).                                     *)

\* What one env.step reports.  Observations and rewards are named by the
\* number of the step that produced them.
StepReports ==
    [terminated : BOOLEAN, truncated : BOOLEAN, info : {<<>>, <<"is_success">>}]

\* An environment: what its steps report, in order, and the steps executed
\* since the last reset.
Environments == [1..MaxDemoSteps -> StepReports]

EnvNew(script) == [script |-> script, steps |-> 0, resets |-> 0]

\* env.reset()
EnvReset(env) == [env EXCEPT !.steps = 0, !.resets = @ + 1]

\* env.step(action)
EnvStep(env) == [env EXCEPT !.steps = @ + 1]

\* Demonstration(observations, actions, rewards, metadata)
Demonstration(observations, actions, rewards, metadata) ==
    [observations |-> observations, actions |-> actions, rewards |-> rewards,
     metadata |-> metadata]

Recorded(env, exc, value) == [env |-> env, exc |-> exc, value |-> value]

\* The statements after the loop: info is the local of the last loop pass,
\* unbound when the loop body never ran.
RecordReturn(env, observations, actions, rewards, info) ==
    IF info = None
    THEN Recorded(env, "UnboundLocalError", None)
    ELSE Recorded(env, "none",
             Some(Demonstration(observations, actions, rewards,
                     [success |-> info[1] = <<"is_success">>])))

\* for t in range(max_steps): ... if terminated or truncated: break
RECURSIVE RecordLoop(_, _, _, _, _, _, _)
RecordLoop(env, t, max_steps, observations, actions, rewards, info) ==
    IF t >= max_steps
    THEN RecordReturn(env, observations, actions, rewards, info)
    ELSE LET stepped == EnvStep(env)
             report == env.script[stepped.steps]
             obs2 == Append(observations, stepped.steps)
             act2 == Append(actions, "input")
             rew2 == Append(rewards, stepped.steps)
         IN  IF report.terminated \/ report.truncated
             THEN RecordReturn(stepped, obs2, act2, rew2, Some(report.info))
             ELSE RecordLoop(stepped, t + 1, max_steps, obs2, act2, rew2,
                             Some(report.info))

\* TeleoperationInterface.record_demonstration
RecordDemonstration(env, max_steps) ==
    RecordLoop(EnvReset(env), 0, max_steps, <<0>>, <<>>, <<>>, None)

TeleopInit ==
    /\ \E script \in Environments : tenv = EnvNew(script)
    /\ demo = [calls |-> 0, max_steps |-> 0, exc |-> "none", value |-> None]
    /\ SafetyIdle
    /\ KinIdle
    /\ ServiceIdle
    /\ ExtIdleBut({"tenv", "demo"})

\* One call of record_demonstration.
RecordDemonstrationCall ==
    /\ demo.calls < MaxRecordings
    /\ \E max_steps \in 0..MaxDemoSteps :
          \E r \in {RecordDemonstration(tenv, max_steps)} :
              /\ tenv' = r.env
              /\ demo' = [calls |-> demo.calls + 1, max_steps |-> max_steps,
                          exc |-> r.exc, value |-> r.value]
    /\ UNCHANGED <<safetyVars, kinVars, svcVars>>
    /\ ExtFrame({"tenv", "demo"})

TeleopNext == RecordDemonstrationCall

SpecTeleop == TeleopInit /\ [][TeleopNext]_vars

----------------------------------------------------------------------------
(* ConnectionManager (src/src/arcs/api/websocket/manager.py).  Each         *)
(* coroutine is taken as one step: the manager runs on one event loop and   *)
(* the topic index is only touched between awaits.                          *)

ConnIds == {"c1", "c2"}
Topics == {"sim", "train"}
MaxConnectionsPerTopicDefault == 100

\* Connection(websocket, connection_id, state=CONNECTED)
Connection(connection_id) ==
    [connection_id |-> connection_id, state |-> "connected", subscriptions |-> {}]

\* ConnectionManager.__init__: _connections and _topic_connections are
\* dictionaries; a missing key is None here.
ConnectionManagerNew(max_connections_per_topic) ==
    [max_connections_per_topic |-> max_connections_per_topic,
     connections |-> [c \in ConnIds |-> None],
     topic_connections |-> [t \in Topics |-> None]]

ManagerReturned(self, ret) == [self |-> self, ret |-> ret]

\* ConnectionManager.connect
Connect(self, connection_id) ==
    ManagerReturned(
        [self EXCEPT !.connections[connection_id] = Some(Connection(connection_id))],
        "connection")

\* ConnectionManager.subscribe
Subscribe(self, connection_id, topic) ==
    IF self.connections[connection_id] = None
    THEN ManagerReturned(self, FALSE)
    ELSE LET topic_conns ==
                 IF self.topic_connections[topic] = None THEN {}
                 ELSE self.topic_connections[topic][1]
             defaulted == [self EXCEPT !.topic_connections[topic] = Some(topic_conns)]
         IN  IF Cardinality(topic_conns) >= self.max_connections_per_topic
             THEN ManagerReturned(defaulted, FALSE)
             ELSE ManagerReturned(
                      [defaulted EXCEPT
                          !.connections[connection_id] =
                              Some([@[1] EXCEPT !.subscriptions = @ \cup {topic}]),
                          !.topic_connections[topic] =
                              Some(topic_conns \cup {connection_id})],
                      TRUE)

\* ConnectionManager.unsubscribe
Unsubscribe(self, connection_id, topic) ==
    IF self.connections[connection_id] = None
    THEN ManagerReturned(self, FALSE)
    ELSE LET discarded ==
                 [self EXCEPT !.connections[connection_id] =
                     Some([@[1] EXCEPT !.subscriptions = @ \ {topic}])]
             topic_conns == self.topic_connections[topic]
         IN  IF topic_conns = None \/ topic_conns = Some({})
             THEN ManagerReturned(discarded, TRUE)
             ELSE IF topic_conns[1] \ {connection_id} = {}
             THEN ManagerReturned(
                      [discarded EXCEPT !.topic_connections[topic] = None], TRUE)
             ELSE ManagerReturned(
                      [discarded EXCEPT !.topic_connections[topic] =
                          Some(topic_conns[1] \ {connection_id})], TRUE)

\* for topic in list(connection.subscriptions): await self.unsubscribe(...)
RECURSIVE UnsubscribeEach(_, _, _)
UnsubscribeEach(self, connection_id, topics) ==
    IF topics = {} THEN self
    ELSE LET topic == CHOOSE t \in topics : TRUE
         IN  UnsubscribeEach(Unsubscribe(self, connection_id, topic).self,
                             connection_id, topics \ {topic})

\* ConnectionManager.disconnect: the connection is popped from _connections
\* before its topics are walked.
Disconnect(self, connection_id) ==
    LET connection == self.connections[connection_id]
        popped == [self EXCEPT !.connections[connection_id] = None]
    IN  IF connection = None
        THEN ManagerReturned(self, "None")
        ELSE ManagerReturned(
                 UnsubscribeEach(popped, connection_id, connection[1].subscriptions),
                 "None")

\* for conn_id in disconnected: await self.disconnect(conn_id)
RECURSIVE DisconnectEach(_, _)
DisconnectEach(self, ids) ==
    IF ids = {} THEN self
    ELSE LET conn_id == CHOOSE c \in ids : TRUE
         IN  DisconnectEach(Disconnect(self, conn_id).self, ids \ {conn_id})

\* ConnectionManager.broadcast_to_topic; failing holds the connections whose
\* websocket raises in send_json.
BroadcastToTopic(self, topic, exclude, failing) ==
    LET topic_conns ==
            IF self.topic_connections[topic] = None THEN {}
            ELSE self.topic_connections[topic][1]
        asked == topic_conns \ exclude
        missing == {c \in asked : self.connections[c] = None}
        disconnected == missing \cup ((asked \ missing) \cap failing)
    IN  ManagerReturned(DisconnectEach(self, disconnected),
                        Cardinality(asked \ disconnected))

\* ConnectionManager.broadcast_all
BroadcastAll(self, exclude, failing) ==
    LET asked == {c \in ConnIds : self.connections[c] # None} \ exclude
        disconnected == asked \cap failing
    IN  ManagerReturned(DisconnectEach(self, disconnected),
                        Cardinality(asked \ disconnected))

ManagerCalled(op, connection_id, topic, ret) ==
    [op |-> op, connection_id |-> connection_id, topic |-> topic, ret |-> ret]

ManagerInit ==
    /\ \E limit \in {1, MaxConnectionsPerTopicDefault} :
          mgr = ConnectionManagerNew(limit)
    /\ wres = ManagerCalled("new", None, None, "None")
    /\ SafetyIdle
    /\ KinIdle
    /\ ServiceIdle
    /\ ExtIdleBut({"mgr", "wres"})

ManagerFrame ==
    /\ UNCHANGED <<safetyVars, kinVars, svcVars>>
    /\ ExtFrame({"mgr", "wres"})

ConnectCall ==
    /\ \E c \in ConnIds :
          \E r \in {Connect(mgr, c)} :
              /\ mgr' = r.self
              /\ wres' = ManagerCalled("connect", Some(c), None, r.ret)
    /\ ManagerFrame

DisconnectCall ==
    /\ \E c \in ConnIds :
          \E r \in {Disconnect(mgr, c)} :
              /\ mgr' = r.self
              /\ wres' = ManagerCalled("disconnect", Some(c), None, r.ret)
    /\ ManagerFrame

SubscribeCall ==
    /\ \E c \in ConnIds, topic \in Topics :
          \E r \in {Subscribe(mgr, c, topic)} :
              /\ mgr' = r.self
              /\ wres' = ManagerCalled("subscribe", Some(c), Some(topic), r.ret)
    /\ ManagerFrame

UnsubscribeCall ==
    /\ \E c \in ConnIds, topic \in Topics :
          \E r \in {Unsubscribe(mgr, c, topic)} :
              /\ mgr' = r.self
              /\ wres' = ManagerCalled("unsubscribe", Some(c), Some(topic), r.ret)
    /\ ManagerFrame

BroadcastToTopicCall ==
    /\ \E topic \in Topics, exclude \in SUBSET ConnIds, failing \in SUBSET ConnIds :
          \E r \in {BroadcastToTopic(mgr, topic, exclude, failing)} :
              /\ mgr' = r.self
              /\ wres' = ManagerCalled("broadcast_to_topic", None, Some(topic), r.ret)
    /\ ManagerFrame

BroadcastAllCall ==
    /\ \E exclude \in SUBSET ConnIds, failing \in SUBSET ConnIds :
          \E r \in {BroadcastAll(mgr, exclude, failing)} :
              /\ mgr' = r.self
              /\ wres' = ManagerCalled("broadcast_all", None, None, r.ret)
    /\ ManagerFrame

ManagerNext ==
    \/ ConnectCall
    \/ DisconnectCall
    \/ SubscribeCall
    \/ UnsubscribeCall
    \/ BroadcastToTopicCall
    \/ BroadcastAllCall

SpecManager == ManagerInit /\ [][ManagerNext]_vars

----------------------------------------------------------------------------
(* TrainingService (src/src/arcs/api/services/training_service.py) with one *)
(* run.  start_run and stop_run are calls of the API thread; each training  *)
(* thread runs _training_loop, one step per test of the stop flag.          *)

\* TrainingRun(id, config, total_steps)
TrainingRun(steps_per_update, total_steps) ==
    [status |-> "idle", current_step |-> 0, total_steps |-> total_steps,
     metrics |-> 0, steps_per_update |-> steps_per_update]

\* TrainingService.__init__ followed by create_run: flags holds every
\* threading.Event made so far, stop_flag the index of the one in _stop_flags.
TrainingServiceNew(run) ==
    [run |-> run, stop_flag |-> None, flags |-> <<>>, training |-> <<>>]

\* A thread in _training_loop: its position, its stop flag, and the passes
\* of the collection loop it has made.
TrainingThread(stop_flag) == [at |-> "setup", stop_flag |-> stop_flag, collected |-> 0]

Alive(thread) == thread.at # "done"

TrainingReturned(self, ret) == [self |-> self, ret |-> ret]

\* TrainingService.start_run
StartRun(self) ==
    IF self.run.status = "training"
    THEN TrainingReturned(self, FALSE)
    ELSE TrainingReturned(
             [self EXCEPT
                 !.flags = Append(@, FALSE),
                 !.stop_flag = Some(Len(self.flags) + 1),
                 !.training = Append(@, TrainingThread(Len(self.flags) + 1)),
                 !.run.status = "training"],
             TRUE)

\* TrainingService.stop_run
StopRun(self) ==
    IF self.stop_flag = None
    THEN TrainingReturned(self, FALSE)
    ELSE TrainingReturned(
             [self EXCEPT !.flags[self.stop_flag[1]] = TRUE,
                          !.run.status = "paused"],
             TRUE)

\* except Exception: run.status = "error"
LoopFailed(self, t) ==
    [self EXCEPT !.run.status = "error", !.training[t].at = "done"]

\* _training_loop up to env.reset(): the environment, policy and trainer are
\* built, or one of the constructors raises.
LoopSetup(self, t, raises) ==
    IF raises THEN LoopFailed(self, t)
    ELSE [self EXCEPT !.training[t].at = "while"]

\* while run.current_step < run.total_steps and not stop_flag.is_set()
LoopWhile(self, t) ==
    IF self.run.current_step < self.run.total_steps
       /\ ~self.flags[self.training[t].stop_flag]
    THEN [self EXCEPT !.training[t].at = "collect", !.training[t].collected = 0]
    ELSE [self EXCEPT !.training[t].at = "complete"]

\* One pass of for _ in range(steps_per_update); done tells whether the
\* environment ended the episode.
LoopCollect(self, t, done) ==
    IF self.training[t].collected >= self.run.steps_per_update
       \/ self.flags[self.training[t].stop_flag]
    THEN [self EXCEPT !.training[t].at = "update"]
    ELSE [self EXCEPT !.run.current_step = @ + 1,
                      !.run.metrics = IF done THEN @ + 1 ELSE @,
                      !.training[t].collected = @ + 1]

\* if not stop_flag.is_set() and len(ppo.buffer) > 0: ppo.update()
LoopUpdate(self, t) ==
    IF ~self.flags[self.training[t].stop_flag] /\ self.training[t].collected > 0
    THEN [self EXCEPT !.run.metrics = @ + 1, !.training[t].at = "while"]
    ELSE [self EXCEPT !.training[t].at = "while"]

\* The statements after the while loop.
LoopComplete(self, t) ==
    [self EXCEPT !.run.status = "completed", !.training[t].at = "done"]

TrainingCalled(op, ret, active) == [op |-> op, ret |-> ret, active |-> active]

TrainingInit ==
    /\ \E steps_per_update \in 1..MaxStepsPerUpdate, total_steps \in 0..MaxTotalSteps :
          train = TrainingServiceNew(TrainingRun(steps_per_update, total_steps))
    /\ tres = TrainingCalled("create_run", "run", FALSE)
    /\ SafetyIdle
    /\ KinIdle
    /\ ServiceIdle
    /\ ExtIdleBut({"train", "tres"})

TrainingFrame ==
    /\ UNCHANGED <<safetyVars, kinVars, svcVars>>
    /\ ExtFrame({"train", "tres"})

AnyAlive(self) == \E t \in DOMAIN self.training : Alive(self.training[t])

StartRunCall ==
    /\ Len(train.training) < MaxTrainThreads
    /\ \E r \in {StartRun(train)} :
          /\ train' = r.self
          /\ tres' = TrainingCalled("start_run", r.ret, AnyAlive(train))
    /\ TrainingFrame

StopRunCall ==
    /\ \E r \in {StopRun(train)} :
          /\ train' = r.self
          /\ tres' = TrainingCalled("stop_run", r.ret, AnyAlive(train))
    /\ TrainingFrame

\* One step of a training thread.
TrainingLoopStep(t) ==
    /\ t \in DOMAIN train.training
    /\ LET at == train.training[t].at
       IN  \/ /\ at = "setup"
              /\ \E raises \in BOOLEAN : train' = LoopSetup(train, t, raises)
           \/ /\ at = "while"
              /\ train' = LoopWhile(train, t)
           \/ /\ at = "collect"
              /\ \E done \in BOOLEAN : train' = LoopCollect(train, t, done)
           \/ /\ at = "update"
              /\ train' = LoopUpdate(train, t)
           \/ /\ at = "complete"
              /\ train' = LoopComplete(train, t)
    /\ UNCHANGED tres
    /\ UNCHANGED <<safetyVars, kinVars, svcVars>>
    /\ ExtFrame({"train", "tres"})

TrainingNext ==
    \/ StartRunCall
    \/ StopRunCall
    \/ \E t \in 1..MaxTrainThreads : TrainingLoopStep(t)

SpecTraining == TrainingInit /\ [][TrainingNext]_vars

----------------------------------------------------------------------------
(* The safety router (src/src/arcs/api/routers/safety.py).                 *)

\* The methods class SafetyFilter defines.
SafetyFilterMethods ==
    {"filter_action", "_solve_qp", "_clip_action", "_log_event"}

HttpOk == 200
HttpBadRequest == 400
HttpServerError == 500

\* The module globals _safety_config, _safety_filter, _total_filtered and
\* _total_violations at import.
RouterNew ==
    [safety_config |-> None, safety_filter |-> None,
     total_filtered |-> 0, total_violations |-> 0]

Responded(globals, status_code, data) ==
    [globals |-> globals, status_code |-> status_code, data |-> data]

StatusData(enabled, globals) ==
    [enabled |-> enabled, total_filtered |-> globals.total_filtered,
     total_violations |-> globals.total_violations]

\* configure_safety
ConfigureSafety(globals, config) ==
    LET configured ==
            [globals EXCEPT
                !.safety_filter =
                    Some(SafetyFilterInit(config.joint_limits, config.workspace_bounds,
                                          config.dt, config.use_qp, config.solver_timeout)),
                !.safety_config = Some(config)]
    IN  Responded(configured, HttpOk, StatusData(TRUE, configured))

\* disable_safety
DisableSafety(globals) ==
    LET disabled == [globals EXCEPT !.safety_filter = None, !.safety_config = None]
    IN  Responded(disabled, HttpOk, StatusData(FALSE, disabled))

\* reset_stats
ResetStats(globals) ==
    LET zeroed == [globals EXCEPT !.total_filtered = 0, !.total_violations = 0]
    IN  Responded(zeroed, HttpOk, StatusData(globals.safety_filter # None, zeroed))

\* get_safety_status
GetSafetyStatus(globals) ==
    Responded(globals, HttpOk, StatusData(globals.safety_filter # None, globals))

\* filter_action of the router: the attribute lookup _safety_filter.filter
\* inside the try block, then the call and the counters.
RouterFilterAction(globals, request) ==
    IF globals.safety_filter = None
    THEN Responded(globals, HttpBadRequest, "Safety filter not configured")
    ELSE IF "filter" \notin SafetyFilterMethods
    THEN Responded(globals, HttpServerError, "AttributeError")
    ELSE LET result == ClipAction(globals.safety_filter[1], request.action,
                                  request.joint_pos)
             clipped == ClippedJoints(request.action, result.safe)
             counted == [globals EXCEPT
                            !.total_filtered = @ + 1,
                            !.total_violations = IF clipped # <<>> THEN @ + 1 ELSE @]
         IN  Responded(counted, HttpOk, [safe_action |-> result.safe])

\* The configurations and filter requests that are sent: well-formed, with
\* finite numbers.
RouterConfigs ==
    {[joint_limits |-> jl, workspace_bounds |-> s.ws, dt |-> s.dt,
      use_qp |-> s.use_qp, solver_timeout |-> DefaultSolverTimeout] :
        jl \in JointLimitsSet, s \in Setups}

FilterRequests ==
    {[action |-> V(<<a, b>>), joint_pos |-> V(<<0, 0>>)] :
        a \in {0, 2}, b \in {0, -2}}

\* sent counts the requests of the behaviour; answered counts the filter
\* requests since the last reset-stats that found the filter configured.
RouterCalled(op, request, status_code, data, sent, answered) ==
    [op |-> op, request |-> request, status_code |-> status_code, data |-> data,
     sent |-> sent, answered |-> answered]

RouterInit ==
    /\ api = RouterNew
    /\ ares = RouterCalled("import", None, HttpOk, "none", 0, 0)
    /\ SafetyIdle
    /\ KinIdle
    /\ ServiceIdle
    /\ ExtIdleBut({"api", "ares"})

RouterFrame ==
    /\ UNCHANGED <<safetyVars, kinVars, svcVars>>
    /\ ExtFrame({"api", "ares"})

ConfigureSafetyRequest ==
    /\ ares.sent < MaxSent
    /\ \E config \in RouterConfigs :
          \E r \in {ConfigureSafety(api, config)} :
              /\ api' = r.globals
              /\ ares' = RouterCalled("configure", None, r.status_code, r.data,
                                      ares.sent + 1, ares.answered)
    /\ RouterFrame

DisableSafetyRequest ==
    /\ ares.sent < MaxSent
    /\ \E r \in {DisableSafety(api)} :
          /\ api' = r.globals
          /\ ares' = RouterCalled("disable", None, r.status_code, r.data,
                                  ares.sent + 1, ares.answered)
    /\ RouterFrame

ResetStatsRequest ==
    /\ ares.sent < MaxSent
    /\ \E r \in {ResetStats(api)} :
          /\ api' = r.globals
          /\ ares' = RouterCalled("reset-stats", None, r.status_code, r.data,
                                  ares.sent + 1, 0)
    /\ RouterFrame

GetSafetyStatusRequest ==
    /\ ares.sent < MaxSent
    /\ \E r \in {GetSafetyStatus(api)} :
          /\ api' = r.globals
          /\ ares' = RouterCalled("status", None, r.status_code, r.data,
                                  ares.sent + 1, ares.answered)
    /\ RouterFrame

FilterActionRequest ==
    /\ ares.sent < MaxSent
    /\ ares.answered < MaxRequests
    /\ \E request \in FilterRequests :
          \E r \in {RouterFilterAction(api, request)} :
              /\ api' = r.globals
              /\ ares' = RouterCalled("filter", Some(request), r.status_code, r.data,
                                      ares.sent + 1,
                                      IF api.safety_filter # None
                                      THEN ares.answered + 1 ELSE ares.answered)
    /\ RouterFrame

RouterNext ==
    \/ ConfigureSafetyRequest
    \/ DisableSafetyRequest
    \/ ResetStatsRequest
    \/ GetSafetyStatusRequest
    \/ FilterActionRequest

SpecRouter == RouterInit /\ [][RouterNext]_vars

----------------------------------------------------------------------------
(* The safety filter in a control loop.                                    *)

SafetyInit ==
    /\ \E jl \in JointLimitsSet, s \in Setups :
          /\ filt = SafetyFilterInit(jl, s.ws, s.dt, s.use_qp, DefaultSolverTimeout)
          /\ cp = s.cp
    /\ pc = "idle"
    /\ call = NoCall
    /\ res = NoResult
    /\ arrays = NoArrays
    /\ KinIdle
    /\ ServiceIdle
    /\ ExtIdle

\* One call of filter_action by the control loop.
Filter ==
    /\ pc = "idle"
    /\ \E action \in [1..NumJoints(filt) -> ActVals],
          current_state \in CurrentStates(NumJoints(filt)) :
          \E out \in IF SolverRuns(filt, action, current_state)
                     THEN SolverOutcomes(filt, action,
                                         JointPos(action, current_state),
                                         current_state)
                     ELSE {NoSolve} :
             LET r == FilterAction(filt, action, current_state, out)
             IN  /\ call' = [action |-> action, current_state |-> current_state,
                             solver |-> out]
                 /\ res' = r.result
                 /\ filt' = r.self
                 /\ arrays' = [action |-> r.action,
                               current_state |-> r.current_state]
    /\ pc' = "returned"
    /\ UNCHANGED <<cp, kinVars, svcVars>>
    /\ ExtFrame({})

\* The caller consumes the result; the per-call values are discarded.
NextCycle ==
    /\ pc = "returned"
    /\ pc' = "idle"
    /\ call' = NoCall
    /\ res' = NoResult
    /\ arrays' = NoArrays
    /\ UNCHANGED <<filt, cp, kinVars, svcVars>>
    /\ ExtFrame({})

SafetyNext == Filter \/ NextCycle

SpecSafety == SafetyInit /\ [][SafetyNext]_vars

----------------------------------------------------------------------------
(* Properties of the safety filter.                                        *)

Returned == pc = "returned"

\* The commanded action and the joint position of the call that returned.
Cmd == call.action
Pos ==
    IF call.current_state.joint_pos = None
    THEN [i \in 1..Len(call.action) |-> Zero]
    ELSE call.current_state.joint_pos[1]
Joints == 1..Len(call.action)
Zeros == [i \in Joints |-> Zero]

HasNan(a) == \E i \in DOMAIN a : a[i].k = "nan"
HasInf(a) == \E i \in DOMAIN a : a[i].k = "inf"
Finite(a) == \A i \in DOMAIN a : a[i].k = "fin"

PosWithinLimits ==
    \A i \in Joints :
        /\ FLe(filt.joint_limits.pos_min[i], Pos[i])
        /\ FLe(Pos[i], filt.joint_limits.pos_max[i])

\* Joint i of the returned action respects the velocity, torque and position
\* bounds.
VelocityOk(i) == FLe(FAbs(res.ret[i]), filt.joint_limits.vel_max[i])
TorqueOk(i) == FLe(FAbs(res.ret[i]), filt.joint_limits.torque_max[i])
PositionOk(i) ==
    LET next == FAdd(Pos[i], FMul(res.ret[i], filt.dt))
    IN  /\ FLe(filt.joint_limits.pos_min[i], next)
        /\ FLe(next, filt.joint_limits.pos_max[i])

SolveEnabled == Returned /\ filt.use_qp /\ ~HasNan(Cmd) /\ ~HasNan(Pos)

FellBackToClipping ==
    /\ res.exc = "none"
    /\ res.ret = ClipAction(filt, Cmd, Pos).safe
    /\ res.event.qp_iterations = 0

C3_NanGivesZero ==
    (Returned /\ (HasNan(Cmd) \/ HasNan(Pos))) =>
        /\ res.exc = "none"
        /\ res.ret = Zeros
        /\ res.path = "zero"
        /\ call.solver = NoSolve
        /\ res.event.qp_iterations = 0

C3_Witness ==
    /\ Returned /\ ~HasNan(Cmd) /\ HasNan(Pos)
    /\ \E i \in Joints : Cmd[i] # Zero
    /\ res.ret = Zeros

\* C4: a +Inf or -Inf in the commanded action or in the joint position gives
\* an all-zero action at once, without the solve and without the clipping.
C4_InfGivesZero ==
    (Returned /\ (HasInf(Cmd) \/ HasInf(Pos))) =>
        /\ res.ret = Zeros
        /\ res.path = "zero"

C7_ReportMatchesDifference ==
    Returned =>
        LET differing == {i - 1 : i \in {j \in Joints :
                             FGt(FAbs(FSub(Cmd[j], res.ret[j])), Fin(1, ClipTolDen))}}
            reported  == {res.event.clipped_joints[k] :
                             k \in DOMAIN res.event.clipped_joints}
        IN  /\ reported = differing
            /\ Len(res.event.clipped_joints) = Cardinality(differing)
            /\ res.event.constraint_violations_count = Cardinality(differing)

\* Other workspace bounds, end-effector positions and Jacobians.
OtherWorkspaceBounds ==
    {None, Some(WorkspaceBox),
     Some([lower |-> V(<<0, 0, 0>>), upper |-> V(<<0, 0, 0>>)])}
OtherEeJacobian ==
    EeJacobianSet \cup {<<Some(SampleEePos), None>>,
                        <<Some(V(<<2, 2, 2>>)), Some(SampleJacobian)>>}
FailedSolves ==
    {[raises |-> TRUE, status |-> "not_set", value |-> None, num_iters |-> 0],
     [raises |-> FALSE, status |-> "infeasible", value |-> None, num_iters |-> 0]}

\* C8: when the clipping path produced the result, a call that differs only
\* in the workspace bounds, the end-effector position and the Jacobian, and
\* is also answered by the clipping path, returns the same action.
C8_ClipIgnoresWorkspace ==
    (Returned /\ res.path = "clip") =>
        \A ws \in OtherWorkspaceBounds, ej \in OtherEeJacobian, out \in FailedSolves :
            LET other == FilterCall([filt EXCEPT !.workspace_bounds = ws], Cmd,
                                    [call.current_state EXCEPT
                                        !.ee_pos = ej[1], !.jacobian = ej[2]],
                                    out)
            IN  other.path = "clip" => other.ret = res.ret

\* The clipping path answered although the predicted end-effector position
\* leaves the workspace box.
C8_Witness ==
    /\ Returned /\ res.path = "clip" /\ Finite(res.ret)
    /\ filt.workspace_bounds # None
    /\ call.current_state.ee_pos # None
    /\ call.current_state.jacobian # None
    /\ LET ee_pos   == call.current_state.ee_pos[1]
           jacobian == call.current_state.jacobian[1]
           box      == filt.workspace_bounds[1]
       IN  \E r \in 1..3 :
               FGt(FAdd(ee_pos[r], FMul(Dot(jacobian[r], res.ret), filt.dt)),
                   box.upper[r])

\* A filter freshly constructed with the configuration of f.
FreshFilter(f) ==
    SafetyFilterInit(f.joint_limits, f.workspace_bounds, f.dt, f.use_qp,
                     f.solver_timeout)

----------------------------------------------------------------------------
(* Properties of forward kinematics.                                       *)

FkReturned == kpc = "returned" /\ kcall.op = "fk"

\* The call passed the URDF and dimension checks.
FkChecksLimits ==
    /\ FkReturned
    /\ kin.urdf # None
    /\ Len(kcall.q) = Len(kin.joint_types)

BoundsDeclared(i) ==
    kin.joint_limits[i].lower # None /\ kin.joint_limits[i].upper # None

OutsideBounds(i) ==
    \/ FLt(kcall.q[i], kin.joint_limits[i].lower[1])
    \/ FGt(kcall.q[i], kin.joint_limits[i].upper[1])

----------------------------------------------------------------------------
(* Properties of batched forward kinematics.                               *)

BatchReturned == kpc = "returned" /\ kcall.op = "fk_batch"

\* What forward_kinematics gives for row i of the batch on its own.
SingleRow(i) == ForwardKinematics(kin, kcall.q[i], kcall.link_name)

\* Row i is the first row of the batch whose own call fails.
FirstFailingRow(i) ==
    /\ SingleRow(i).exc # "none"
    /\ \A j \in 1..(i - 1) : SingleRow(j).exc = "none"

\* C11: batched forward kinematics gives, row for row, what the
\* single-configuration call gives: when every row is valid the batch is the
\* list of the rows' poses, and when a row has the wrong length or violates
\* a joint limit the batch fails with that row's failure; on the row-by-row
\* path and on the torch path alike.
C11_BatchEqualsRows ==
    BatchReturned =>
        IF \A i \in DOMAIN kcall.q : SingleRow(i).exc = "none"
        THEN /\ kres.exc = "none"
             /\ \A i \in DOMAIN kcall.q :
                    \A single \in {SingleRow(i)} : kres.value[1][i] = single.value[1]
        ELSE \A i \in DOMAIN kcall.q :
                 FirstFailingRow(i) => kres.exc = SingleRow(i).exc

----------------------------------------------------------------------------
(* Properties of the end-effector pose.                                    *)

\* The motion transform of a joint of the description at joint value qi.
MotionOf(joint, qi) ==
    CASE joint.joint_type \in {"revolute", "continuous"} ->
             Transform(RotVecMatrix(Normalized(joint.axis), qi), Zero3)
      [] joint.joint_type = "prismatic" ->
             Transform(Eye3, [i \in 1..3 |-> FMul(joint.axis[i], qi)])
      [] OTHER -> EyeT

\* Identity, then for joints 1..n in chain order: origin, then motion.
RECURSIVE ComposedPose(_, _, _)
ComposedPose(joints, q, n) ==
    IF n = 0 THEN EyeT
    ELSE TMul(TMul(ComposedPose(joints, q, n - 1),
                   Transform(Eye3, joints[n].origin)),
              MotionOf(joints[n], q[n]))

EndEffectorPoseReturned ==
    /\ FkReturned
    /\ kres.exc = "none"
    /\ kcall.link_name = Some(kin.end_effector_link)

----------------------------------------------------------------------------
(* Properties of the Jacobian.                                             *)

JacobianReturned == kpc = "returned" /\ kcall.op = "jacobian"

\* The frame of joint j of the description: the pose of the joints before
\* it, composed with the joint's origin transform.
FrameOf(joints, q, j) ==
    TMul(ComposedPose(joints, q, j - 1), Transform(Eye3, joints[j].origin))

\* The column the geometric Jacobian has for a joint with unit world axis a,
\* joint-frame origin p_j and end-effector position p_ee.
GeometricColumn(joint_type, a, p_j, p_ee) ==
    CASE joint_type \in {"revolute", "continuous"} ->
             Cross(a, [i \in 1..3 |-> FSub(p_ee[i], p_j[i])]) \o a
      [] joint_type = "prismatic" -> a \o Zero3
      [] OTHER -> Zero3 \o Zero3

\* C13: for a valid configuration of a chain with N joints, jacobian(q) is a
\* 6xN matrix whose column j is (a_j x (p_ee - p_j), a_j) for a revolute or
\* continuous joint, (a_j, 0) for a prismatic joint and zero for a fixed
\* joint, with a_j the unit joint axis in the world frame, p_j the origin of
\* the joint frame and p_ee the end-effector position.
C13_JacobianColumns ==
    (JacobianReturned /\ kres.exc = "none") =>
        \A J \in {kres.value[1]}, joints \in {kin.urdf[1].joints} :
            /\ Len(J) = Len(joints)
            /\ \A j \in DOMAIN J :
                  \A frame \in {FrameOf(joints, kcall.q, j)},
                     p_ee \in {ComposedPose(joints, kcall.q, Len(joints)).translation} :
                        /\ Len(J[j]) = 6
                        /\ J[j] = GeometricColumn(joints[j].joint_type,
                                      MatVec(frame.rot, Normalized(joints[j].axis)),
                                      frame.translation, p_ee)

----------------------------------------------------------------------------
(* C14: a failure of the condition-number computation never makes a        *)
(* Jacobian query fail.                                                    *)

\* A Jacobian request at a valid configuration whose solver was obtained.
JacobianQueried ==
    /\ sres.op = "compute_jacobian"
    /\ sres.solver # None

\* C14: every Jacobian query at a valid configuration returns the Jacobian
\* without raising, with a condition number that is a number or +infinity
\* when its computation failed.
C14_JacobianQueryAnswered ==
    JacobianQueried =>
        /\ sres.exc = "none"
        /\ sres.value # None
        /\ sres.value[1].condition_number \in {"number", "inf"}

----------------------------------------------------------------------------
(* C15: inverse kinematics returns normally from every initial guess       *)
(* within the joint limits.                                                *)

IkReturned ==
    /\ kpc = "returned"
    /\ kcall.op = "inverse_kinematics"

\* The vector the run started from: the guess, or zeros when none was given.
IkStart ==
    IF kcall.q = <<>> THEN [i \in Idx(kin.chain_joint_names) |-> Zero] ELSE kcall.q

\* C15: for every target and every initial guess of the right length within
\* the joint limits, inverse_kinematics evaluates at most max_iters iterates
\* and returns a joint vector without raising, also when an iterate leaves
\* the joint limits.
C15_IkNeverRaises ==
    (IkReturned /\ ValidateJointLimits(kin, IkStart) = "none") =>
        /\ kres.exc = "none"
        /\ kres.value # None
        /\ Len(ktrace) <= kcall.max_iters

----------------------------------------------------------------------------
(* C16: without convergence, inverse kinematics returns the best iterate.  *)

\* The squared positional error of a pose against the target of the call.
ErrorSq(pose) ==
    Dot(VSub(kcall.target[1], pose.translation),
        VSub(kcall.target[1], pose.translation))

PoseAt(q) == ForwardKinematics(kin, q, Some(kin.end_effector_link))

\* The call returned a vector from the statement after the loop: no
\* evaluated iterate was within the tolerance.
IkExhausted ==
    /\ IkReturned
    /\ kres.exc = "none"
    /\ kres.value # None
    /\ Len(ktrace) = kcall.max_iters
    /\ \A i \in Idx(ktrace) : \A at \in {PoseAt(ktrace[i])} :
          ~NormBelow(VSub(kcall.target[1], at.value[1].translation), IkTol)

\* C16: when inverse_kinematics does not converge within max_iters, the
\* positional error of the vector it returns is not larger than the
\* positional error of any iterate it evaluated.
C16_ReturnsBestIterate ==
    IkExhausted =>
        \A final \in {PoseAt(kres.value[1])} :
            final.exc = "none" =>
                \A i \in Idx(ktrace) : \A at \in {PoseAt(ktrace[i])} :
                    FLe(ErrorSq(final.value[1]), ErrorSq(at.value[1]))

\* The mock robot, asked to reach (-1, 0, 1) from zeros: the second iterate
\* has joint2 = -2, below its lower limit.
C15_FailingRun ==
    /\ IkReturned
    /\ kin.urdf = Some(MockRobot)
    /\ kcall.q = <<Zero, Zero>>
    /\ kcall.target = Some(<<Fin(-1, 1), Zero, Fin(1, 1)>>)
    /\ kcall.max_iters = 2
    /\ kres.exc = "ValueError: out of limits"
    /\ ktrace = <<(<<Zero, Zero>>), (<<Zero, Fin(-2, 1)>>)>>

\* The open robot, asked to reach (0, 1, 22/7) from zeros in one pass: the
\* vector returned turns the swivel by half a turn, away from the target.
C16_FailingRun ==
    /\ IkReturned
    /\ kin.urdf = Some(OpenRobot)
    /\ kcall.q = <<Zero, Zero>>
    /\ kcall.target = Some(<<Zero, Fin(1, 1), Fin(22, 7)>>)
    /\ kcall.max_iters = 1
    /\ kres.value = Some(<<Fin(2, 1), Zero>>)

----------------------------------------------------------------------------
(* C17: inverse kinematics started at a solution reports convergence.      *)

\* An inverse-kinematics request whose solver was obtained, whose target is
\* the end-effector position of the zero configuration and whose initial
\* guess is the zero configuration.
IkQueriedAtSolution ==
    /\ sres.op = "inverse_kinematics"
    /\ sres.solver # None
    /\ sres.args[1].initial_joints = <<Zero, Zero>>
    /\ \A at \in {ForwardKinematics(sres.solver[1].self, <<Zero, Zero>>,
                                    Some(sres.solver[1].self.end_effector_link))} :
          /\ at.exc = "none"
          /\ at.value[1].translation = sres.args[1].target_position

\* C17: inverse kinematics run with the target equal to the forward
\* kinematics of a valid q* and with the initial guess q* reports
\* convergence within at most one iteration, with final error below the
\* caller's tolerance, and returns q* unchanged.
C17_ConvergesAtSolution ==
    IkQueriedAtSolution =>
        /\ sres.exc = "none"
        /\ sres.value # None
        /\ sres.value[1].converged
        /\ sres.value[1].iterations <= 1
        /\ sres.value[1].joint_angles = <<Zero, Zero>>

\* What the solver itself does at a solution: started with at least one
\* pass at a vector within the limits whose pose has the target's position,
\* it evaluates that vector once and returns it.
IkAtSolutionReturnsStart ==
    (/\ IkReturned
     /\ kcall.max_iters >= 1
     /\ \A at \in {PoseAt(IkStart)} :
           /\ at.exc = "none"
           /\ at.value[1].translation = kcall.target[1]) =>
        /\ kres.exc = "none"
        /\ kres.value = Some(IkStart)
        /\ ktrace = <<IkStart>>

IkStartedAtSolution ==
    /\ IkReturned
    /\ kcall.max_iters >= 1
    /\ IkStart # <<Zero, Zero>>
    /\ \A at \in {PoseAt(IkStart)} :
          /\ at.exc = "none"
          /\ at.value[1].translation = kcall.target[1]

----------------------------------------------------------------------------
(* C18: the root is the unique link that is never a child.                 *)

ConstructReturned ==
    /\ kpc = "returned"
    /\ kcall.op = "construct"

\* The links of the joint graph that are never the child of a joint.
RootCandidates(urdf) == Parents(urdf) \ Children(urdf)

\* C18: chain construction takes as root the unique link that is never the
\* child of any joint, and fails with an error, building no chain, when
\* there is no such link or more than one.
C18_RootIsUnique ==
    ConstructReturned =>
        IF Cardinality(RootCandidates(kcall.target[1].urdf)) = 1
        THEN kres.exc = "none" =>
                 kres.value[1].base_link \in RootCandidates(kcall.target[1].urdf)
        ELSE /\ kres.exc # "none"
             /\ kres.value = None

\* Two joints with the same child and different parents, in a description
\* object without base_link: a solver is built on one of the two parents.
C18_FailingRun ==
    /\ ConstructReturned
    /\ kcall.target[1].urdf.base = None
    /\ kcall.target[1].urdf.joints =
           <<ChainJoint(1, "a", "c"), ChainJoint(2, "b", "c")>>
    /\ kres.exc = "none"
    /\ kres.value[1].base_link = "b"
    /\ kres.value[1].chain_joint_names = <<"j2">>

----------------------------------------------------------------------------
(* C19: the built chain is the joint path from the base to the effector.   *)

\* The joint of the description with this name.
JointNamed(urdf, name) ==
    urdf.joints[CHOOSE i \in Idx(urdf.joints) : urdf.joints[i].name = name]

\* names lists joints that lead from link first to link last.
IsJointPath(urdf, names, first, last) ==
    IF names = <<>> THEN first = last
    ELSE /\ JointNamed(urdf, names[1]).parent = first
         /\ \A i \in 2..Len(names) :
               JointNamed(urdf, names[i]).parent = JointNamed(urdf, names[i - 1]).child
         /\ JointNamed(urdf, names[Len(names)]).child = last

\* No link is the child of two joints.
TreeShaped(urdf) ==
    \A i, j \in Idx(urdf.joints) :
        urdf.joints[i].child = urdf.joints[j].child => i = j

\* Some list of joints of the description leads from first to last.
Connected(urdf, first, last) ==
    \E n \in 0..Len(urdf.joints) : \E path \in [1..n -> Idx(urdf.joints)] :
        IsJointPath(urdf, [i \in 1..n |-> urdf.joints[path[i]].name], first, last)

\* The link reached from link after k steps from a child to its parent.
RECURSIVE StepsBack(_, _, _)
StepsBack(urdf, link, k) ==
    IF k = 0 THEN Some(link)
    ELSE LET before == StepsBack(urdf, link, k - 1)
         IN  IF before = None \/ ChildToJoint(urdf, before[1]) = None THEN None
             ELSE Some(ChildToJoint(urdf, before[1])[1].parent)

\* The walk from last reaches, before it reaches base, a link that is no
\* joint's child.
BrokenWalk(urdf, base, last) ==
    \E k \in 0..Len(urdf.joints) :
        /\ StepsBack(urdf, last, k) # None
        /\ ChildToJoint(urdf, StepsBack(urdf, last, k)[1]) = None
        /\ \A j \in 0..k : StepsBack(urdf, last, j) # Some(base)

\* The end-effector link of the call: the one asked for, or the last link.
EndLinkAsked ==
    IF kcall.link_name = None
    THEN kcall.target[1].urdf.links[Len(kcall.target[1].urdf.links)]
    ELSE kcall.link_name[1]

BrokenWalkRefused ==
    /\ ConstructReturned
    /\ kcall.target[1].base.exc = "none"
    /\ Len(kcall.target[1].urdf.joints) = 2
    /\ BrokenWalk(kcall.target[1].urdf, kcall.target[1].base.name, EndLinkAsked)
    /\ kres.exc = "ValueError: Missing joint for link"

----------------------------------------------------------------------------
(* C20: one solver per description path, built at the first request.       *)

\* The paths with a cached solver, and the cache, before any service exists.
SolversOf(global) == IF global = None THEN <<>> ELSE global[1].solvers

\* One request for the path sres' names, seen as a step of the service.
RequestStep ==
    LET path == sres'.path
        before == SolversOf(service)
        after == SolversOf(service')
    IN  IF path = None
        THEN /\ created' = created
             /\ after = before
        ELSE IF path[1] \in DOMAIN before
        THEN /\ created' = created
             /\ after = before
             /\ sres'.solver = Some(before[path[1]])
        ELSE /\ Len(created') = Len(created) + 1
             /\ SubSeq(created', 1, Len(created)) = created
             /\ created'[Len(created')].path = path[1]
             /\ IF created'[Len(created')].exc = "none"
                THEN /\ DOMAIN after = DOMAIN before \cup {path[1]}
                     /\ \A other \in DOMAIN before : after[other] = before[other]
                     /\ after[path[1]].id = Len(created')
                     /\ sres'.solver = Some(after[path[1]])
                ELSE /\ after = before
                     /\ sres'.solver = None
                     /\ sres'.exc = created'[Len(created')].exc

\* C20: no solver exists before the first request; a request for a path
\* without cached solver constructs one for that path and caches it when the
\* construction succeeds; a request for a path with a cached solver obtains
\* that same object and constructs nothing; a construction that fails
\* leaves the cache as it was, so the next request for the path constructs
\* again.
C20_BuiltOnceLazily ==
    /\ service = None
    /\ created = <<>>
    /\ [][RequestStep]_vars

\* A cached solver was obtained again after later constructions, and the
\* construction for a path that failed was attempted twice.
C20_Witness ==
    /\ sres.op = "get_solver"
    /\ sres.solver # None
    /\ sres.solver[1].id < Len(created)
    /\ created[sres.solver[1].id].path = sres.path[1]
    /\ \E i, j \in Idx(created) :
          /\ i < j
          /\ created[i].path = created[j].path
          /\ created[i].exc # "none"

----------------------------------------------------------------------------
(* C21: concurrent requests for one uncached path construct one solver.    *)

\* The constructor calls for a path that returned a solver.
BuiltFor(path) ==
    {i \in Idx(created) : created[i].path = path /\ created[i].exc = "none"}

\* C21: when several threads request the same uncached description path,
\* the solver is constructed at most once and every thread that has
\* returned from get_solver for that path holds that same object.
C21_ConstructedOnce ==
    threads # <<>> =>
        \A path \in ThreadPaths :
            /\ Cardinality(BuiltFor(path)) <= 1
            /\ \A t, u \in Threads :
                  (/\ threads[t].at = "done"
                   /\ threads[u].at = "done"
                   /\ threads[t].path = Some(path)
                   /\ threads[u].path = Some(path)) =>
                      threads[t].ret = threads[u].ret

\* Two threads have returned from get_solver for the same path with two
\* different solver objects.
C21_FailingRun ==
    /\ threads # <<>>
    /\ \E t, u \in Threads :
          /\ threads[t].at = "done"
          /\ threads[u].at = "done"
          /\ threads[t].path = threads[u].path
          /\ threads[t].ret # threads[u].ret

----------------------------------------------------------------------------
(* C22: a transform composed with its inverse is the identity.             *)

\* C22: for every rigid transform t, compose(t, inverse(t)) has the identity
\* rotation and zero translation.
C22_ComposeInverseIsIdentity ==
    (geo # <<>> /\ geo.op = "compose_inverse") =>
        /\ geo.out[1].translation = Zero3
        /\ SO3AsMatrix(geo.out[1].rotation) = Eye3
        /\ SO3AsMatrix(geo.out[1].rotation) = SO3AsMatrix(SE3Identity.rotation)

\* A transform that rotates and translates was composed with its inverse,
\* whose translation is not just the negated translation.
C22_Witness ==
    /\ geo # <<>>
    /\ geo.op = "compose_inverse"
    /\ SO3AsMatrix(geo.a[1].rotation) # Eye3
    /\ geo.a[1].translation # Zero3
    /\ geo.b[1].translation # VNeg(geo.a[1].translation)
    /\ geo.out[1].translation = Zero3

----------------------------------------------------------------------------
(* C23: applying a composition is applying its parts in turn.              *)

\* C23: for all transforms a and b and every point p,
\* transform_point(compose(a, b), p) = transform_point(a, transform_point(b, p)),
\* transform_point(t, p) being rotation(t) * p + translation(t); and
\* composing is associative.
C23_ComposeThenApply ==
    (geo # <<>> /\ geo.op = "transform_point") =>
        \A a \in {geo.a[1]}, b \in {geo.b[1]}, p \in {geo.p[1]} :
            /\ geo.out[1].composed = geo.out[1].nested
            /\ geo.out[1].nested =
                   VAdd(MatVec(SO3AsMatrix(a.rotation),
                               VAdd(MatVec(SO3AsMatrix(b.rotation), p), b.translation)),
                        a.translation)
            /\ \A c \in SE3Samples :
                  SE3Compose(SE3Compose(a, b), c) = SE3Compose(a, SE3Compose(b, c))

\* Two transforms that both rotate and translate, and do not commute, were
\* composed and applied to a point other than the origin.
C23_Witness ==
    /\ geo # <<>>
    /\ geo.op = "transform_point"
    /\ SO3AsMatrix(geo.a[1].rotation) # Eye3
    /\ SO3AsMatrix(geo.b[1].rotation) # Eye3
    /\ geo.a[1].translation # Zero3
    /\ geo.b[1].translation # Zero3
    /\ geo.p[1] # Zero3
    /\ geo.out[1].composed = geo.out[1].nested
    /\ geo.out[1].composed # TransformPoint(SE3Compose(geo.b[1], geo.a[1]), geo.p[1])

----------------------------------------------------------------------------
(* C24: a rollout buffer without overwrite, filled and overfilled.         *)

\* A further add to a buffer without overwrite that has had max_size
\* additions: rows, write pointer and size stay as they are, and the add
\* raises BufferOverflowError exactly if raise_on_overflow is set.
OverflowStep ==
    (/\ buffer # <<>>
     /\ ~buffer.allow_overwrite
     /\ bres.adds >= buffer.max_size
     /\ bres'.adds = bres.adds + 1) =>
        /\ buffer'.rows = buffer.rows
        /\ buffer'.ptr = buffer.ptr
        /\ BufferSize(buffer') = BufferSize(buffer)
        /\ bres'.exc = IF buffer.raise_on_overflow THEN "BufferOverflowError"
                       ELSE "none"

\* After exactly max_size additions the buffer is full.
FullAfterMaxSize ==
    (/\ buffer # <<>>
     /\ ~buffer.allow_overwrite
     /\ bres.adds = buffer.max_size) =>
        /\ buffer.full
        /\ BufferSize(buffer) = buffer.max_size

\* C24 as stated: for a buffer created without overwrite, after exactly
\* buffer_size additions the buffer is full, and every further add leaves
\* the stored transitions, the write pointer and the size unchanged, raising
\* BufferOverflowError if and only if raise_on_overflow is set.
C24_FullThenRejects ==
    /\ []FullAfterMaxSize
    /\ [][OverflowStep]_vars

\* C24 for buffers with at least one row.
C24_FullThenRejectsNonEmpty ==
    /\ [](buffer # <<>> /\ buffer.max_size >= 1 => FullAfterMaxSize)
    /\ [][OverflowStep]_vars

\* An add to a full buffer of two rows was refused with BufferOverflowError,
\* and the rows written before are still there.
C24_Witness ==
    /\ buffer # <<>>
    /\ ~buffer.allow_overwrite
    /\ buffer.raise_on_overflow
    /\ buffer.max_size = 2
    /\ bres.adds = 3
    /\ bres.exc = "BufferOverflowError"
    /\ buffer.full
    /\ buffer.ptr = 2
    /\ buffer.rows[1].obs # buffer.rows[2].obs

----------------------------------------------------------------------------
(* C25: an unsafe step stops the real-robot environment until reset.       *)

\* Some component of the action has a magnitude above 1.0.
HasLargeComponent(action) ==
    \E i \in Idx(action) : ~IsNan(action[i]) /\ FGt(FAbs(action[i]), Fin(1, 1))

\* The step of the model is a call of RealRobotEnv.step.
IsStepCall == renv # <<>> /\ rres'.op = "step" /\ rres'.steps = rres.steps + 1

\* A step on a running environment with a component above 1.0 raises the
\* safety violation, leaves the joint position unchanged and stops.
UnsafeStepStops ==
    (IsStepCall /\ renv.is_running /\ HasLargeComponent(rres'.action[1])) =>
        /\ rres'.exc = "RuntimeError: Safety violation"
        /\ renv'.mock_pos = renv.mock_pos
        /\ ~renv'.is_running

\* A step on a stopped environment raises and moves nothing, and only reset
\* makes the environment run again.
StoppedUntilReset ==
    /\ (IsStepCall /\ ~renv.is_running) =>
          /\ rres'.exc = "RuntimeError: Environment not running"
          /\ renv' = renv
    /\ (renv # <<>> /\ ~renv.is_running /\ renv'.is_running) => rres'.op = "reset"

\* C25: a step whose action has a component of magnitude above 1.0 raises a
\* safety-violation error, leaves the joint position unchanged and stops the
\* environment; from then on every step raises, moving nothing, until reset.
C25_UnsafeStepStopsUntilReset ==
    [][UnsafeStepStops /\ StoppedUntilReset]_vars

\* The action [nan, 2, 0, ...] was stepped on the running environment at
\* home without an error, and joint 2 has moved.
C25_FailingRun ==
    /\ renv # <<>>
    /\ rres.op = "step"
    /\ rres.exc = "none"
    /\ rres.action[1][1] = NaN
    /\ rres.action[1][2] = Fin(2, 1)
    /\ renv.is_running
    /\ renv.mock_pos[2] = Fin(2, StepScaleDen)

\* What holds of the code: a step with a component above 1.0 and no NaN
\* component stops the running environment, and a stopped one stays stopped.
UnsafeStepWithoutNanStops ==
    [][/\ (IsStepCall /\ renv.is_running /\ HasLargeComponent(rres'.action[1])
             /\ ~AnyNan(rres'.action[1])) =>
              /\ rres'.exc = "RuntimeError: Safety violation"
              /\ renv'.mock_pos = renv.mock_pos
              /\ ~renv'.is_running
       /\ StoppedUntilReset]_vars

----------------------------------------------------------------------------
(* C26: what record_demonstration returns.                                 *)

\* The steps of the environment up to and including the first one that
\* reports terminated or truncated, at most max_steps of them.
RECURSIVE StepsUntilDone(_, _, _)
StepsUntilDone(script, n, max_steps) ==
    IF n >= max_steps THEN n
    ELSE IF script[n + 1].terminated \/ script[n + 1].truncated THEN n + 1
    ELSE StepsUntilDone(script, n + 1, max_steps)

DemoShape ==
    /\ demo.exc = "none"
    /\ demo.value # None
    /\ Len(demo.value[1].actions) = tenv.steps
    /\ Len(demo.value[1].rewards) = tenv.steps
    /\ tenv.steps <= demo.max_steps
    /\ Len(demo.value[1].observations) = Len(demo.value[1].actions) + 1
    /\ tenv.steps = StepsUntilDone(tenv.script, 0, demo.max_steps)

\* C26: for every environment and every max_steps >= 0, record_demonstration
\* returns a demonstration with as many actions and rewards as steps were
\* executed, at most max_steps, and one observation more, and it executes no
\* step after the first that reports terminated or truncated.
C26_DemonstrationShape ==
    (tenv # <<>> /\ demo.calls >= 1) => DemoShape

\* record_demonstration(env, max_steps=0) ended with UnboundLocalError.
C26_FailingRun ==
    /\ tenv # <<>>
    /\ demo.calls >= 1
    /\ demo.max_steps = 0
    /\ demo.exc = "UnboundLocalError"
    /\ demo.value = None

\* With max_steps >= 1 the call returns a demonstration of the stated shape.
DemonstrationShapeFromOneStep ==
    (tenv # <<>> /\ demo.calls >= 1 /\ demo.max_steps >= 1) => DemoShape

\* A recording that stopped at a terminated step before max_steps.
RecordingStoppedEarly ==
    /\ tenv # <<>>
    /\ demo.calls >= 1
    /\ demo.exc = "none"
    /\ demo.max_steps = 3
    /\ tenv.steps = 2
    /\ tenv.script[2].terminated

----------------------------------------------------------------------------
(* C27: the topic index of the connection manager.                         *)

Subscribers(topic) ==
    IF mgr.topic_connections[topic] = None THEN {}
    ELSE mgr.topic_connections[topic][1]

Registered(c) == mgr.connections[c] # None

\* c is a subscriber of the topic exactly if c is registered and has the
\* topic in its own subscriptions.
TopicIndexMatches ==
    \A c \in ConnIds, topic \in Topics :
        c \in Subscribers(topic) <=>
            (Registered(c) /\ topic \in mgr.connections[c][1].subscriptions)

NoEmptyTopic == \A topic \in Topics : mgr.topic_connections[topic] # Some({})

GoneAfterDisconnect ==
    wres.op = "disconnect" =>
        \A topic \in Topics : wres.connection_id[1] \notin Subscribers(topic)

\* C27: over connect, subscribe, unsubscribe, disconnect and broadcasts with
\* failing sends, a connection id is in a topic's subscriber set if and only
\* if the connection is registered and has the topic in its subscriptions;
\* after disconnect(c) the id c is in no subscriber set, and no topic keeps
\* an empty subscriber set.
C27_TopicIndexConsistent ==
    mgr # <<>> => (TopicIndexMatches /\ GoneAfterDisconnect /\ NoEmptyTopic)

\* connect(c1); subscribe(c1, "sim"); disconnect(c1): c1 is still a
\* subscriber of "sim".
C27_FailingRun ==
    /\ mgr # <<>>
    /\ wres.op = "disconnect"
    /\ wres.connection_id = Some("c1")
    /\ ~Registered("c1")
    /\ "c1" \in Subscribers("sim")

\* subscribe and unsubscribe keep a matching index matching.
SubscribeKeepsIndex ==
    [][(mgr # <<>> /\ TopicIndexMatches /\ mgr' # <<>>
        /\ wres'.op \in {"subscribe", "unsubscribe"}) => TopicIndexMatches']_vars

----------------------------------------------------------------------------
(* C28: stop_run pauses a run, and a run has one training thread.          *)

\* The last call on the service was a stop_run that returned True while a
\* training thread of the run was active; no start_run has followed.
StoppedWhileActive ==
    /\ tres.op = "stop_run"
    /\ tres.ret = TRUE
    /\ tres.active

AliveThreads == {t \in DOMAIN train.training : Alive(train.training[t])}

\* C28: after stop_run returns True for a run whose training thread is
\* active, the status is "paused" and stays so until the next start_run (the
\* training loop does not overwrite it when it exits), and at no time do two
\* training threads run for the same run.
C28_PausedStaysPaused ==
    train # <<>> =>
        /\ StoppedWhileActive => train.run.status = "paused"
        /\ Cardinality(AliveThreads) <= 1

\* start_run; stop_run while the thread is in its loop; the thread leaves
\* the loop: the status is "completed".
C28_FailingRun ==
    /\ train # <<>>
    /\ StoppedWhileActive
    /\ AliveThreads = {}
    /\ train.run.status = "completed"

\* start_run; stop_run; start_run before the first thread has tested its
\* flag: two threads train the same run.
C28_TwoThreads ==
    /\ train # <<>>
    /\ Cardinality(AliveThreads) = 2
    /\ train.run.status = "training"

\* stop_run itself sets the status: right after the call it is "paused".
StopRunPauses ==
    [][(StopRunCall /\ tres'.ret = TRUE) => train'.run.status = "paused"]_vars

----------------------------------------------------------------------------
(* C29: chain construction ends for every finite description.              *)

\* C29: chain construction terminates for every finite robot description,
\* also for one whose joint graph has a cycle or whose walk from the
\* end-effector never reaches the base link: it ends with a chain or with an
\* error and never loops forever.
C29_ConstructionEnds ==
    ConstructReturned =>
        \/ kres.exc = "none" /\ kres.value # None
        \/ kres.exc \in {"ValueError: Unable to determine base link",
                         "ValueError: Missing joint for link"}

\* Joints a -> b and b -> a, base link c, end-effector a: the walk goes
\* round the cycle and the constructor does not return.
C29_FailingRun ==
    /\ ConstructReturned
    /\ kcall.target[1].urdf.base = Some("c")
    /\ kcall.target[1].urdf.joints =
           <<ChainJoint(1, "a", "b"), ChainJoint(2, "b", "a")>>
    /\ kres.exc = "never returns"

\* A walk that meets a link without a joint before the base ends with
\* ValueError.
WalkOffTheGraphRefused ==
    ConstructReturned /\ kres.exc = "ValueError: Missing joint for link"
        => kres.value = None

----------------------------------------------------------------------------
(* C30: filter requests through the API.                                   *)

IsFilterRequest == ares'.sent # ares.sent /\ ares'.op = "filter"

\* A filter request that finds the filter configured is answered with a
\* safe action.
ConfiguredFilterAnswered ==
    (api # <<>> /\ IsFilterRequest /\ api.safety_filter # None) =>
        /\ ares'.status_code = HttpOk
        /\ ares'.data # "AttributeError"

\* A filter request before configure or after disable is rejected and
\* leaves both counters as they are.
UnconfiguredFilterRejected ==
    (api # <<>> /\ IsFilterRequest /\ api.safety_filter = None) =>
        /\ ares'.status_code = HttpBadRequest
        /\ api'.total_filtered = api.total_filtered
        /\ api'.total_violations = api.total_violations

\* total_filtered is the number of filter requests since the last
\* reset-stats that found the filter configured.
FilteredCounted == api # <<>> => api.total_filtered = ares.answered

\* C30: once the safety filter is configured and until it is disabled, every
\* filter request with a well-formed finite action and joint position is
\* answered with a safe action, not an error, and total_filtered equals the
\* number of such requests since the last reset-stats; a filter request
\* before configure or after disable is rejected and changes no counter.
C30_FilterThroughApi ==
    /\ []FilteredCounted
    /\ [][ConfiguredFilterAnswered /\ UnconfiguredFilterRejected]_vars

\* configure, then filter: the response is a server error and
\* total_filtered is still 0.
C30_FailingRun ==
    /\ api # <<>>
    /\ api.safety_filter # None
    /\ ares.op = "filter"
    /\ ares.sent = 2
    /\ ares.status_code = HttpServerError
    /\ ares.data = "AttributeError"
    /\ api.total_filtered = 0
    /\ ares.answered = 1

\* The part about an unconfigured filter holds.
C30_UnconfiguredRejected == [][UnconfiguredFilterRejected]_vars

\* A filter request after configure and disable was rejected.
RejectedAfterDisable ==
    /\ api # <<>>
    /\ ares.op = "filter"
    /\ ares.sent = 3
    /\ ares.status_code = HttpBadRequest

====
